---------------------------- MODULE Spec2Model ----------------------------
(***************************************************************************)
(* A model of the Flow State audio core: the realtime output callback and  *)
(* its block queue (flow_state_main.py, AudioEngine) and the audio effects *)
(* (flow_state_audio_effects.py: AudioEffect, GainEffect, Chorus).         *)
(*                                                                         *)
(* Numbers are fixed point:                                                *)
(*   volume          percent            (0.7 is 70)                        *)
(*   samples         integers; an output sample is sample * volume, in     *)
(*                   hundredths                                            *)
(*   gain_linear     thousandths        (1.0 is 1000)                      *)
(*   rate_hz, mix, stereo_spread   tenths   (0.2 is 2)                     *)
(*   depth_s         milliseconds       (0.003 is 3)                       *)
(*   lfo_rate_hz     rate_hz * (1 + u) in thousandths of a Hz              *)
(* A numpy array is a record [shape, val]: its shape tuple and a function  *)
(* from the index tuples of that shape (1-based) to its samples.           *)
(***************************************************************************)
EXTENDS Integers, Sequences, FiniteSets, TLC

\* ------------------------------------------------------------------ bounds
\* Largest frame count and channel count of the blocks and buffers explored.
MaxFrames == 2
MaxCh == 2
\* Blocks pushed in the callback specification SpecCb.
MaxPush == 2
\* Blocks the producer thread reads in the engine specification Spec: enough to
\* fill the queue and to hold one more block while waiting on it.
MaxProduced == 17
\* Seeks and stops completed in Spec.
MaxGen == 2
MaxFxCh == 3

\* --------------------------------------------------------- program values
\* queue.Queue(maxsize=15)
QueueMaxSize == 15
\* self.sample_rate = 44100
DefaultSampleRate == 44100
\* self.volume = 0.7, in percent
DefaultVolume == 70
\* self.channels = 2
DefaultChannels == 2

VARIABLES
    \* AudioEngine
    stream_output_queue,  \* the blocks queued for the callback, oldest first
    volume,               \* percent
    is_muted,
    sample_rate,
    channels,
    is_playing,
    is_paused,
    playback_position_sec,  \* in blocks
    seek_request,         \* _seek_request_sec, in blocks; None when there is none
    stop_event,           \* _stop_playback_event is set
    pause_event,          \* _pause_event is set: the producer may run
    \* the threads
    prodPc,               \* the producer thread: "none", "loop", "put", "done"
    prodHeld,             \* the block the producer has read and not yet put
    ctlPc,                \* the controlling thread: "ready", "stop_join"
    \* the callback's buffer
    outdata,              \* the output buffer as the last callback left it
    \* bookkeeping the program does not hold
    cbLast,               \* the last callback invocation and its outcome
    gen,                  \* seeks and stops completed
    nextId,               \* blocks produced
    enqLog,               \* ids put into the queue since it was last cleared
    deqLog,               \* ids taken from the queue since it was last cleared
    \* one audio effect (GainEffect or Chorus)
    fx,                   \* the effect object: its fields
    fxLast,               \* the last call made on it and whether it raised
    fxSeq,                \* "fresh", the one parameter name every call so far
                          \* was a set_parameter of, or "mixed"
    fxIn,                 \* the block last passed to process_block
    fxOut,                \* the block it returned
    \* AudioEngine: the output stream, the track and the playlist
    stream,               \* self.stream: NoStream, or the OutputStream
    current_file,         \* the loaded track; None when there is none
    playlist,             \* the tracks, in their natural order
    current_index,        \* index (from 0) of the current track; -1 for none
    shuffle_mode,
    repeat_mode,          \* "off", "one", "all"
    shuffled_indices,     \* playlist indices in shuffled play order
    current_shuffled_play_order_idx,  \* index (from 0) into shuffled_indices
    previous_volume_before_mute,
    transition_request,   \* "playback_track_transition_request" is published
    ctlArg,               \* what the controlling thread does after the join
    \* the effects chain of the host (effects_chain_ref)
    chain,                \* its effects, in insertion order
    chainProps,           \* its sample rate and channels
    \* bookkeeping the program does not hold
    engLast,              \* the last controller operation and its outcome
    hostLast,             \* the last request_playback_action and its callback
    volScn,               \* progress of set_volume(0), toggle_mute, toggle_mute
    chLast,               \* the last chain call, its block and its outcome
    active_pairing_pins,  \* SecurityManager: PIN -> (temp id, expiry)
    paired_devices_info,  \* SecurityManager: device id -> name
    auth_tokens,          \* the auth tokens issued, by the device they name
    now,                  \* datetime.now(timezone.utc), in ticks
    issued,               \* the PINs handed out and not yet expired or used
    syncPc,               \* handle_submit_pin_from_mobile: where it is
    syncReq,              \* the submission being handled and its locals
    syncLast,             \* the last pairing call and its outcome
    mwLast,               \* the last request through _auth_middleware
    current_session_data, \* CollaborationUI: the session, or None
    is_host_of_session,   \* CollaborationUI
    collabAfter,          \* CollaborationUI: handlers scheduled with after(0, ...)
    collabLast            \* the last CollaborationUI call and what it sent

engineVars == <<volume, is_muted, sample_rate, channels>>
ctlVars == <<is_playing, is_paused, playback_position_sec, seek_request,
             stop_event, pause_event, ctlPc>>
prodVars == <<prodPc, prodHeld, nextId>>
cbVars == <<outdata, cbLast>>
fxVars == <<fx, fxLast, fxSeq, fxIn, fxOut>>
plVars == <<stream, current_file, playlist, current_index, shuffle_mode,
            repeat_mode, shuffled_indices, current_shuffled_play_order_idx,
            transition_request, ctlArg, engLast, hostLast>>
volVars == <<previous_volume_before_mute, volScn>>
chVars == <<chain, chainProps, chLast>>
syncVars == <<active_pairing_pins, paired_devices_info, auth_tokens, now,
              issued, syncPc, syncReq, syncLast, mwLast>>
collabVars == <<current_session_data, is_host_of_session, collabAfter,
                collabLast>>
netVars == <<syncVars, collabVars>>
extVars == <<plVars, volVars, chVars>>

vars == <<stream_output_queue, volume, is_muted, sample_rate, channels,
          is_playing, is_paused, playback_position_sec, seek_request,
          stop_event, pause_event, prodPc, prodHeld, ctlPc, outdata, cbLast,
          gen, nextId, enqLog, deqLog, fx, fxLast, fxSeq, fxIn, fxOut,
          stream, current_file, playlist, current_index, shuffle_mode,
          repeat_mode, shuffled_indices, current_shuffled_play_order_idx,
          previous_volume_before_mute, transition_request, ctlArg,
          chain, chainProps, engLast, hostLast, volScn, chLast,
          active_pairing_pins, paired_devices_info, auth_tokens, now, issued,
          syncPc, syncReq, syncLast, mwLast, current_session_data,
          is_host_of_session, collabAfter, collabLast>>

None == -1

\* ------------------------------------------------------------------ arrays
\* The index tuples of an array of the given shape (1, 2 or 3 dimensions).
Idx(shape) ==
    IF Len(shape) = 1 THEN {<<i>> : i \in 1..shape[1]}
    ELSE IF Len(shape) = 2 THEN {<<i, j>> : i \in 1..shape[1], j \in 1..shape[2]}
    ELSE {<<i, j, k>> : i \in 1..shape[1], j \in 1..shape[2], k \in 1..shape[3]}

\* np.zeros(shape)
Zeros(shape) == [shape |-> shape, val |-> [t \in Idx(shape) |-> 0]]

\* array * scalar
Scale(a, k) == [shape |-> a.shape, val |-> [t \in Idx(a.shape) |-> a.val[t] * k]]

AllZero(a) == \A t \in Idx(a.shape) : a.val[t] = 0

NoArray == [shape |-> <<>>, val |-> <<>>]

\* a[:, np.newaxis]: an axis of length 1 put in after the first.
NewAxis(a) ==
    LET shp == <<a.shape[1], 1>> \o SubSeq(a.shape, 2, Len(a.shape))
    IN  [shape |-> shp,
         val |-> [t \in Idx(shp) |-> a.val[<<t[1]>> \o SubSeq(t, 3, Len(t))]]]

\* np.tile(a, reps), for reps no longer than a has dimensions: reps is made
\* as long as a.shape by putting 1s in front, and the array is repeated
\* reps[k] times along axis k.
Tile(a, reps) ==
    LET nd == Len(a.shape)
        full == [k \in 1..nd |->
                    IF k <= nd - Len(reps) THEN 1 ELSE reps[k - (nd - Len(reps))]]
        shp == [k \in 1..nd |-> a.shape[k] * full[k]]
    IN  [shape |-> shp,
         val |-> [t \in Idx(shp) |->
                    a.val[[k \in 1..nd |-> ((t[k] - 1) % a.shape[k]) + 1]]]]

\* The sum of row i of a two-dimensional array, up to column c.
RECURSIVE RowSum(_, _, _)
RowSum(a, i, c) == IF c = 0 THEN 0 ELSE a.val[<<i, c>>] + RowSum(a, i, c - 1)

\* np.mean(a, axis=1, keepdims=True) of a two-dimensional array (the test
\* signals have even samples, so the mean of two channels is exact).
MeanAxis1(a) ==
    [shape |-> <<a.shape[1], 1>>,
     val |-> [t \in Idx(<<a.shape[1], 1>>) |->
                RowSum(a, t[1], a.shape[2]) \div a.shape[2]]]

\* A test signal of the given shape: even samples that differ from frame to
\* frame and from channel to channel (p shifts the signal; p = -3 makes its
\* first sample 0 and p = -4 makes it negative).
Signal(shape, p) ==
    [shape |-> shape,
     val |-> [t \in Idx(shape) |-> 2 * (p + t[1] + 2 * t[Len(t)])]]

\* The shapes a block can have: one-dimensional (frames,), two-dimensional
\* (frames, channels), and the three-dimensional (frames, 1, 2) that np.tile
\* makes of a two-dimensional mono block for a two-channel effect.
Shapes1 == {<<n>> : n \in 1..MaxFrames}
Shapes2 == {<<n, c>> : n \in 1..MaxFrames, c \in 1..MaxCh}
Shapes3 == {<<n, 1, 2>> : n \in 1..MaxFrames}
BlockShapes == Shapes1 \cup Shapes2 \cup Shapes3
BlockArrays == {Signal(s, -4) : s \in BlockShapes}

\* A queued block: its array, and two tags the program does not hold, the
\* number of the block in production order (id) and the number of seeks and
\* stops completed when it was produced (gen).
Block(id, g, arr) == [id |-> id, gen |-> g, arr |-> arr]
NoBlock == [id |-> 0, gen |-> 0, arr |-> [shape |-> <<>>, val |-> <<>>]]

\* ----------------------------------------------------------- audio effects
\* A Python value passed to set_parameter or held in parameters: a number, a
\* string or None.
Num(n) == [t |-> "num", n |-> n, s |-> ""]
Str(x) == [t |-> "str", n |-> 0, s |-> x]
PyNone == [t |-> "none", n |-> 0, s |-> ""]

\* float(value): the number, or ValueError / TypeError.
PyFloat(v) ==
    IF v.t = "num" THEN [ok |-> TRUE, n |-> v.n]
    ELSE IF v = Str("3") THEN [ok |-> TRUE, n |-> 3]
    ELSE [ok |-> FALSE, n |-> 0]

\* 10 ** (gain_val_db / 20.0), in thousandths.
GainLinear(db) ==
    CASE db = -6 -> 501
      [] db = 0 -> 1000
      [] db = 2 -> 1259
      [] db = 3 -> 1413

\* The values set_parameter is called with, and the names: the parameters
\* with derived state, and a name no effect has.
ParamValues == {Num(-6), Num(0), Num(3), Str("3"), Str("loud")}
ParamNames == {"gain_db", "rate_hz", "num_voices", "freq"}

\* np.random.uniform(-0.1, 0.1), in percent: one draw per voice.
Jitter == {-10, 10}
\* 'num_voices': 3
DefaultNumVoices == 3
RandomDraws == [1..DefaultNumVoices -> Jitter]
\* The draws a call can make: only a Chorus draws, and only in reset, which
\* a change of num_voices or of the stream properties runs.
DrawsFor(e, name) ==
    IF e.cls = "Chorus" /\ name \in {"num_voices", "_stream_props_changed", "reset"}
    THEN RandomDraws
    ELSE {[i \in 1..DefaultNumVoices |-> 10]}

\* The stream properties set_stream_properties is called with.
SampleRates == {0, 44100, 48000}
ChannelCounts == 1..MaxFxCh

\* AudioEffect.__init__ followed by GainEffect.__init__. (A GainEffect has no
\* voices_data or write_idx and a Chorus no gain_linear: the record holds the
\* fields of both, the other's at a fixed value.)
GainEffect ==
    [cls |-> "Gain", enabled |-> TRUE, bypass |-> FALSE,
     parameters |-> [n \in {"gain_db"} |-> Num(0)],
     sample_rate |-> 44100, channels |-> 2,
     gain_linear |-> GainLinear(0),
     voices_data |-> <<>>, write_idx |-> 0]

\* The parameters a Chorus is constructed with (rate_hz in tenths of a Hz,
\* depth_s in milliseconds, mix and stereo_spread in tenths).
ChorusDefaults ==
    [n \in {"rate_hz", "depth_s", "mix", "num_voices", "stereo_spread"} |->
        CASE n = "rate_hz" -> Num(2)
          [] n = "depth_s" -> Num(3)
          [] n = "mix" -> Num(5)
          [] n = "num_voices" -> Num(DefaultNumVoices)
          [] n = "stereo_spread" -> Num(7)]

\* (A reset that also puts the parameters back to their defaults, for C13.)
Chorus_reset_defaults(e, rnd) ==
    LET buffer_len_samples == (25 * e.sample_rate) \div 1000
    IN  [e |-> [e EXCEPT
                  !.parameters = ChorusDefaults,
                  !.voices_data =
                      IF e.sample_rate <= 0 \/ e.channels <= 0
                              \/ buffer_len_samples <= 0
                      THEN <<>>
                      ELSE [i \in 1..DefaultNumVoices |->
                              [frames |-> buffer_len_samples,
                               chans |-> e.channels,
                               lfo_rate_hz |-> 2 * (100 + rnd[i])]],
                  !.write_idx = 0],
         raised |-> FALSE]

\* Chorus.reset: the voices are made again from the current parameters and
\* stream properties. rnd[i] is the random draw of voice i.
Chorus_reset(e, rnd) ==
    LET num_v == e.parameters["num_voices"]
        rate == e.parameters["rate_hz"]
        cleared == [e EXCEPT !.voices_data = <<>>]
        buffer_len_samples == (25 * e.sample_rate) \div 1000
    IN  IF e.sample_rate <= 0 \/ e.channels <= 0
        THEN [e |-> cleared, raised |-> FALSE]
        ELSE IF buffer_len_samples <= 0
        THEN [e |-> cleared, raised |-> FALSE]
        ELSE IF num_v.t # "num"
        THEN \* range(num_v)
             [e |-> cleared, raised |-> TRUE]
        ELSE IF num_v.n >= 1 /\ rate.t # "num"
        THEN \* rate_hz * (1.0 + ...) in the first turn of the loop
             [e |-> cleared, raised |-> TRUE]
        ELSE [e |-> [e EXCEPT
                       !.voices_data =
                           [i \in 1..(IF num_v.n > 0 THEN num_v.n ELSE 0) |->
                               [frames |-> buffer_len_samples,
                                chans |-> e.channels,
                                lfo_rate_hz |-> rate.n * (100 + rnd[i])]],
                       !.write_idx = 0],
              raised |-> FALSE]

\* AudioEffect.__init__ followed by Chorus.__init__, which ends in reset().
Chorus(rnd) ==
    Chorus_reset(
        [cls |-> "Chorus", enabled |-> TRUE, bypass |-> FALSE,
         parameters |-> ChorusDefaults,
         sample_rate |-> 44100, channels |-> 2,
         gain_linear |-> 0,
         voices_data |-> <<>>, write_idx |-> 0],
        rnd).e

\* reset() of the effect's class: AudioEffect.reset does nothing.
reset(e, rnd) ==
    IF e.cls = "Chorus" THEN Chorus_reset(e, rnd) ELSE [e |-> e, raised |-> FALSE]

\* GainEffect._on_parameter_change
Gain_on_parameter_change(e, name, value) ==
    IF name = "gain_db"
    THEN LET gain_val_db == PyFloat(value)
         IN  IF ~gain_val_db.ok
             THEN [e |-> e, raised |-> TRUE]
             ELSE [e |-> [e EXCEPT !.parameters["gain_db"] = Num(gain_val_db.n),
                                   !.gain_linear = GainLinear(gain_val_db.n)],
                   raised |-> FALSE]
    ELSE [e |-> e, raised |-> FALSE]

\* Chorus._on_parameter_change
Chorus_on_parameter_change(e, name, value, rnd) ==
    IF name \in {"num_voices", "_stream_props_changed"}
    THEN Chorus_reset(e, rnd)
    ELSE [e |-> e, raised |-> FALSE]

on_parameter_change(e, name, value, rnd) ==
    IF e.cls = "Gain" THEN Gain_on_parameter_change(e, name, value)
    ELSE Chorus_on_parameter_change(e, name, value, rnd)

\* (A set_parameter that stores a value under an unknown name, for C8.)
set_parameter_adds_key(e, name, value, rnd) ==
    IF name \in DOMAIN e.parameters /\ e.parameters[name] = value
    THEN [e |-> e, raised |-> FALSE]
    ELSE on_parameter_change(
             [e EXCEPT !.parameters =
                 [n \in DOMAIN e.parameters \cup {name} |->
                     IF n = name THEN value ELSE e.parameters[n]]],
             name, value, rnd)

\* AudioEffect.set_parameter
set_parameter(e, name, value, rnd) ==
    IF name \in DOMAIN e.parameters
    THEN IF e.parameters[name] # value
         THEN on_parameter_change([e EXCEPT !.parameters[name] = value],
                                  name, value, rnd)
         ELSE [e |-> e, raised |-> FALSE]
    ELSE [e |-> e, raised |-> FALSE]

\* (A set_stream_properties that stores the properties and never runs the
\* re-initialisation, for C14.)
set_stream_properties_no_reinit(e, sr, ch, rnd1, rnd2) ==
    [e |-> [e EXCEPT !.sample_rate = sr, !.channels = ch], raised |-> FALSE]

\* AudioEffect.set_stream_properties. A Chorus resets twice (in
\* _on_parameter_change and in reset); the second reset replaces every voice
\* of the first, whose draws rnd1 leave no trace.
set_stream_properties(e, sr, ch, rnd1, rnd2) ==
    LET needs_reinit == e.sample_rate # sr \/ e.channels # ch
        e1 == [e EXCEPT !.sample_rate = sr, !.channels = ch]
    IN  IF needs_reinit
        THEN LET r1 == on_parameter_change(e1, "_stream_props_changed", PyNone, rnd1)
             IN  IF r1.raised THEN r1 ELSE reset(r1.e, rnd2)
        ELSE [e |-> e, raised |-> FALSE]

\* AudioEffect.process_block: bypass, then the channel adaptation.
AudioEffect_process_block(e, audio_block) ==
    IF e.bypass \/ ~e.enabled
    THEN audio_block
    ELSE LET input_block_channels ==
                 IF Len(audio_block.shape) = 2 THEN audio_block.shape[2] ELSE 1
         IN  IF input_block_channels = e.channels
             THEN audio_block
             ELSE IF input_block_channels = 1 /\ e.channels = 2
             THEN Tile(NewAxis(audio_block), <<1, e.channels>>)
             ELSE IF input_block_channels = 2 /\ e.channels = 1
             THEN MeanAxis1(audio_block)
             ELSE audio_block

\* (A GainEffect.process_block without the early return of a bypassed or
\* disabled effect, for C12.)
Gain_process_block_no_bypass(e, audio_block) ==
    LET processed_block == AudioEffect_process_block(e, audio_block)
    IN  IF e.gain_linear = 1000
        THEN [block |-> processed_block, milli |-> FALSE]
        ELSE [block |-> Scale(processed_block, e.gain_linear), milli |-> TRUE]

\* GainEffect.process_block. The block it returns at a gain other than 1.0 is
\* processed_block * gain_linear, its samples in thousandths (milli).
Gain_process_block(e, audio_block) ==
    LET processed_block == AudioEffect_process_block(e, audio_block)
    IN  IF e.bypass \/ ~e.enabled
        THEN [block |-> audio_block, milli |-> FALSE]
        ELSE IF e.gain_linear = 1000
        THEN [block |-> processed_block, milli |-> FALSE]
        ELSE [block |-> Scale(processed_block, e.gain_linear), milli |-> TRUE]

\* Chorus.process_block: the voices are not run (the loop is left out of the
\* source); the adapted block is returned.
Chorus_process_block(e, audio_block) ==
    LET input_block == AudioEffect_process_block(e, audio_block)
    IN  IF e.bypass \/ ~e.enabled
        THEN [block |-> audio_block, milli |-> FALSE]
        ELSE [block |-> input_block, milli |-> FALSE]

process_block(e, audio_block) ==
    IF e.cls = "Gain" THEN Gain_process_block(e, audio_block)
    ELSE Chorus_process_block(e, audio_block)

NoCall == [op |-> "init", name |-> "", value |-> PyNone, known |-> FALSE,
           raised |-> FALSE, sr |-> 0, ch |-> 0]

\* --------------------------------------------------------------- the queue
\* (A queue made without maxsize is never full, for C6.)
QueueFullNever(q) == FALSE

\* queue.Queue(maxsize=15): put waits while full() holds.
QueueFull(q) == Len(q) >= QueueMaxSize

\* (A queue.LifoQueue takes the newest block, for C2.)
QueueGetNewest(q) == [block |-> q[Len(q)], rest |-> SubSeq(q, 1, Len(q) - 1)]

\* queue.Queue is first-in first-out: get() takes the oldest block.
QueueGet(q) == [block |-> Head(q), rest |-> Tail(q)]

\* put() appends.
QueuePut(q, b) == Append(q, b)

\* ---------------------------------------------- AudioEngine._sounddevice_callback
\* The exceptions the callback's handlers catch: `except queue.Empty` and
\* `except Exception`.
\* (A callback with `except queue.Empty` alone, for C5.)
SdCallbackCatchesEmptyOnly(exc) == exc = "Empty"

SdCallbackCatches(exc) ==
    exc \in {"Empty", "IndexError", "ValueError", "ZeroDivisionError"}

\* The try body: what is left in the queue, which block was taken, what was
\* written to outdata ("block": block * effective_volume, "zeros": the
\* mismatch branch's fill(0), "none": nothing yet) and the exception raised.
SdCallbackTry(q, frames, outCh) ==
    IF sample_rate = 0
    THEN \* block_size / sample_rate
         [exc |-> "ZeroDivisionError", q |-> q, block |-> NoBlock, write |-> "none"]
    ELSE IF q = <<>>
    THEN [exc |-> "Empty", q |-> q, block |-> NoBlock, write |-> "none"]
    ELSE LET g == QueueGet(q)
             shp == g.block.arr.shape
         IN  IF shp[1] # frames
             THEN [exc |-> "none", q |-> g.rest, block |-> g.block, write |-> "zeros"]
             ELSE IF Len(shp) < 2
             THEN \* block.shape[1] of a one-dimensional block
                  [exc |-> "IndexError", q |-> g.rest, block |-> g.block, write |-> "none"]
             ELSE IF shp[2] # outCh
             THEN [exc |-> "none", q |-> g.rest, block |-> g.block, write |-> "zeros"]
             ELSE IF Len(shp) = 2
             THEN [exc |-> "none", q |-> g.rest, block |-> g.block, write |-> "block"]
             ELSE \* outdata[:] = a (frames, 1, channels) array: not broadcastable
                  [exc |-> "ValueError", q |-> g.rest, block |-> g.block, write |-> "none"]

\* The buffer the audio library hands in: (frames, channels), contents stale.
StaleBuffer(frames, outCh) ==
    [shape |-> <<frames, outCh>>, val |-> [t \in Idx(<<frames, outCh>>) |-> 7]]

\* (A callback whose queue.Empty handler does not fill the buffer, for C3.)
SdCallbackOutNoFillOnEmpty(r, frames, outCh) ==
    IF r.exc = "Empty"
    THEN StaleBuffer(frames, outCh)
    ELSE IF r.exc # "none" \/ r.write = "zeros"
    THEN Zeros(<<frames, outCh>>)
    ELSE Scale(r.block.arr, IF is_muted THEN 0 ELSE volume)

\* (A callback that ignores is_muted, for C4.)
SdCallbackOutIgnoresMute(r, frames, outCh) ==
    IF r.exc # "none" \/ r.write = "zeros"
    THEN Zeros(<<frames, outCh>>)
    ELSE Scale(r.block.arr, volume)

\* effective_volume = self.volume if not self.is_muted else 0.0
effective_volume == IF is_muted THEN 0 ELSE volume

\* The buffer after the callback, handlers included.
SdCallbackOut(r, frames, outCh) ==
    IF r.exc # "none"
    THEN IF SdCallbackCatches(r.exc)
         THEN Zeros(<<frames, outCh>>)
         ELSE StaleBuffer(frames, outCh)
    ELSE IF r.write = "zeros"
    THEN Zeros(<<frames, outCh>>)
    ELSE Scale(r.block.arr, effective_volume)

\* What an invocation adds to a count the engine holds: the queue.Empty
\* handler fills the buffer and logs a debug line; no branch assigns a field.
UnderrunsRecorded(r) == 0

SdCallback(frames, outCh) ==
    LET r == SdCallbackTry(stream_output_queue, frames, outCh)
        took == r.block # NoBlock
    IN  /\ stream_output_queue' = r.q
        /\ outdata' = SdCallbackOut(r, frames, outCh)
        /\ cbLast' = [called |-> TRUE, qEmpty |-> (stream_output_queue = <<>>),
                      exc |-> r.exc, write |-> r.write,
                      recorded |-> UnderrunsRecorded(r),
                      escaped |-> (r.exc # "none" /\ ~SdCallbackCatches(r.exc)),
                      took |-> took, id |-> r.block.id,
                      blockGen |-> r.block.gen,
                      genNow |-> IF took THEN gen ELSE 0]
        /\ deqLog' = IF took THEN Append(deqLog, r.block.id) ELSE deqLog
        /\ UNCHANGED <<netVars, fxVars, extVars, engineVars, ctlVars, prodVars, gen, enqLog>>

NeverCalled ==
    [called |-> FALSE, qEmpty |-> FALSE, exc |-> "none", write |-> "none",
     recorded |-> 0,
     escaped |-> FALSE, took |-> FALSE, id |-> 0, blockGen |-> 0, genNow |-> 0]

\* sd.OutputStream(blocksize=self.block_size, ...): the library asks for
\* block_size frames on every invocation (1024 in the source; the model's
\* blocks are MaxFrames long).
block_size == MaxFrames

\* ------------------------------------------------------ the engine: Spec
\* The bodies of _playback_thread_func, play, pause, resume, stop and
\* set_position are not in the source file (each is `pass`, "as before"); they
\* are modelled from the outline in _playback_thread_func's comments and from
\* the playback controller's contract. The queue and the callback are the
\* source's.

\* The block the decoder reads and the effects chain returns: block_size
\* frames (the last block is padded) of self.channels channels.
DecodedBlock == Signal(<<block_size, channels>>, -4)

\* ------------------------------------- the stream, the track, the playlist
\* self.stream = None
NoStream == [open |-> FALSE, active |-> FALSE, samplerate |-> 0, channels |-> 0]

NoArg == [op |-> "none", path |-> None, index |-> -1, context |-> <<>>,
          then_play |-> FALSE, via_host |-> FALSE, why |-> "none"]
NoEngCall == [op |-> "init", ok |-> TRUE, path |-> None, why |-> "none"]
OtherEngCall == [op |-> "other", ok |-> TRUE, path |-> None, why |-> "none"]
NoHostCall == [action |-> "none", success |-> FALSE, err_msg |-> "none",
               dispatched |-> "none", scheduled |-> 0, called_back |-> FALSE,
               propagated |-> FALSE]
NoChainCall == [op |-> "init", raised |-> FALSE, in |-> NoArray, out |-> NoArray]

\* create_effects_tab: the chain holds the default effects the source has the
\* code of (the GainEffect), at the host's audio properties.
DefaultChain == <<GainEffect>>

\* ------------------------------------ mobile pairing and collaboration
\* SecurityManager.__init__: no PIN is active; no device is paired (a fresh
\* paired_devices_mobile.json). handle_submit_pin_from_mobile is not running.
NoDict == [k \in {} |-> 0]
NoPinInfo == [found |-> FALSE, temp |-> 0, expiry |-> 0]
NoSubmission == [pin |-> 0, temp_server_id |-> 0, mobile_device_id |-> 0,
                 mobile_device_name |-> 0, pin_info |-> NoPinInfo,
                 was_active |-> FALSE, was_bound |-> FALSE,
                 unexpired |-> FALSE]
NoSyncCall == [op |-> "init", status |-> "none", paired |-> FALSE]
\* request.headers.get('Authorization') is None: the request has no such header.
NoHeader == [scheme |-> "none", sep |-> FALSE, token |-> 0]
NoRequest == [seen |-> FALSE, path |-> <<>>, header |-> NoHeader, status |-> 0,
              handled |-> FALSE, handler |-> "none", device_id |-> None]
\* self.current_session_data is None.
NoSession == [set |-> FALSE, session_id |-> 0, host_id |-> 0]
NoCollabCall == [op |-> "init", sent |-> FALSE, was_host |-> FALSE,
                 had_session |-> FALSE]

\* The server and the collaboration panel with the devices devs paired (each
\* under the name 1, each holding a token), no PIN active and no session.
NetState(devs) ==
    /\ active_pairing_pins = NoDict
    /\ paired_devices_info = [d \in devs |-> 1]
    /\ auth_tokens = devs
    /\ now = 0
    /\ issued = {}
    /\ syncPc = "idle"
    /\ syncReq = NoSubmission
    /\ syncLast = NoSyncCall
    /\ mwLast = NoRequest
    /\ current_session_data = NoSession
    /\ is_host_of_session = FALSE
    /\ collabAfter = <<>>
    /\ collabLast = NoCollabCall

\* CollaborationUI.__init__ and MobileServer.__init__: a fresh
\* paired_devices_mobile.json, nothing paired.
NetIdle == NetState({})

\* AudioEngine.__init__, the fields of the stream, the track and the playlist,
\* and the host's chain as create_effects_tab makes it; with the stream, the
\* track and the playlist as given.
ExtOwn(st, file, pl, idx) ==
    /\ stream = st
    /\ current_file = file
    /\ playlist = pl /\ current_index = idx
    /\ shuffle_mode = FALSE /\ repeat_mode = "off"
    /\ shuffled_indices = <<>> /\ current_shuffled_play_order_idx = -1
    /\ previous_volume_before_mute = DefaultVolume
    /\ transition_request = FALSE
    /\ ctlArg = NoArg
    /\ chain = DefaultChain
    /\ chainProps = [sample_rate |-> DefaultSampleRate, channels |-> DefaultChannels]
    /\ engLast = NoEngCall /\ hostLast = NoHostCall
    /\ volScn = 0
    /\ chLast = NoChainCall

\* The same, in a process whose mobile server has paired no device.
ExtState(st, file, pl, idx) == NetIdle /\ ExtOwn(st, file, pl, idx)

\* The engine as constructed: no stream, no track.
ExtIdle == ExtState(NoStream, None, <<>>, -1)

\* What opening and starting the output device can do.
DeviceOutcomes == {"ok", "open_fails", "start_fails"}

\* _stop_sound_stream(close_existing=True): the stream is stopped and closed
\* and self.stream is None.
stop_sound_stream(st) == NoStream

\* (A _start_sound_stream that opens the stream at the default properties
\* instead of the engine's, for C15.)
start_sound_stream_default_props(st, sr, ch, dev) ==
    IF st.open /\ st.active THEN [stream |-> st, ok |-> TRUE, raised |-> FALSE]
    ELSE IF sr <= 0 \/ ch <= 0 THEN [stream |-> st, ok |-> FALSE, raised |-> FALSE]
    ELSE IF dev = "open_fails"
    THEN [stream |-> NoStream, ok |-> FALSE, raised |-> FALSE]
    ELSE [stream |-> [open |-> TRUE, active |-> dev = "ok",
                      samplerate |-> DefaultSampleRate,
                      channels |-> DefaultChannels],
          ok |-> dev = "ok", raised |-> FALSE]

\* (A handler that catches nothing, for C21.)
StartStreamCatchesNothing(dev) == FALSE

\* `except Exception` of _start_sound_stream: what sd.OutputStream(...) and
\* stream.start() raise (sd.PortAudioError, ValueError) is caught.
StartStreamCatches(dev) == dev \in {"open_fails", "start_fails"}

\* _start_sound_stream: the stream after it, what it returns, and whether an
\* exception leaves it. dev is what the device does: sd.OutputStream(...)
\* raises, stream.start() raises, or both succeed.
start_sound_stream(st, sr, ch, dev) ==
    IF st.open /\ st.active
    THEN [stream |-> st, ok |-> TRUE, raised |-> FALSE]
    ELSE IF sr <= 0 \/ ch <= 0
    THEN [stream |-> st, ok |-> FALSE, raised |-> FALSE]
    ELSE LET old_gone == IF st.open THEN stop_sound_stream(st) ELSE st
         IN  IF dev = "open_fails"
             THEN [stream |-> old_gone, ok |-> FALSE,
                   raised |-> ~StartStreamCatches(dev)]
             ELSE IF dev = "start_fails"
             THEN [stream |-> [open |-> TRUE, active |-> FALSE,
                               samplerate |-> sr, channels |-> ch],
                   ok |-> FALSE, raised |-> ~StartStreamCatches(dev)]
             ELSE [stream |-> [open |-> TRUE, active |-> TRUE,
                               samplerate |-> sr, channels |-> ch],
                   ok |-> TRUE, raised |-> FALSE]

\* stream_output_queue cleared; the logs start again.
ClearQueue ==
    /\ stream_output_queue' = <<>>
    /\ enqLog' = <<>>
    /\ deqLog' = <<>>

Init ==
    /\ stream_output_queue = <<>>
    /\ volume = DefaultVolume
    /\ is_muted = FALSE
    /\ sample_rate = DefaultSampleRate
    /\ channels = DefaultChannels
    /\ is_playing = FALSE /\ is_paused = FALSE
    /\ playback_position_sec = 0 /\ seek_request = None
    /\ stop_event = FALSE /\ pause_event = TRUE
    /\ prodPc = "none" /\ prodHeld = NoBlock /\ ctlPc = "ready"
    /\ outdata = StaleBuffer(block_size, DefaultChannels)
    /\ cbLast = NeverCalled
    /\ gen = 0 /\ nextId = 0 /\ enqLog = <<>> /\ deqLog = <<>>
    /\ fx = GainEffect /\ fxLast = NoCall /\ fxSeq = "fresh"
    /\ fxIn = NoArray /\ fxOut = NoArray
    /\ ExtState(NoStream, 1, <<1>>, 0)

\* What play() leaves alone.
PlayFrame ==
    UNCHANGED <<netVars, fxVars, volVars, chVars, current_file, playlist, current_index,
                shuffle_mode, repeat_mode, shuffled_indices,
                current_shuffled_play_order_idx, transition_request, ctlArg,
                hostLast, stream_output_queue, engineVars,
                playback_position_sec, seek_request, ctlPc, cbVars, gen,
                nextId, enqLog, deqLog>>

\* play(): from Stopped with a track loaded, clear the events, start the
\* stream and then the producer thread; when already playing, nothing. When
\* the stream does not start the failure is reported and the engine stays
\* Stopped.
Play ==
    /\ ctlPc = "ready"
    /\ ~is_playing
    /\ current_file # None
    /\ prodPc \in {"none", "done"}
    /\ \E dev \in DeviceOutcomes :
          LET r == start_sound_stream(stream, sample_rate, channels, dev)
          IN  /\ stream' = r.stream
              /\ engLast' = [op |-> "play", ok |-> r.ok, path |-> None,
                             why |-> "none"]
              /\ prodPc' = IF r.ok THEN "loop" ELSE "none"
              /\ is_playing' = r.ok
    /\ stop_event' = FALSE
    /\ pause_event' = TRUE
    /\ prodHeld' = NoBlock
    /\ is_paused' = FALSE
    /\ PlayFrame

\* pause(): the producer is asked to suspend; queued blocks stay queued.
Pause ==
    /\ ctlPc = "ready"
    /\ is_playing /\ ~is_paused
    /\ pause_event' = FALSE
    /\ is_paused' = TRUE
    /\ UNCHANGED <<netVars, fxVars, extVars, stream_output_queue, engineVars, is_playing,
                   playback_position_sec, seek_request, stop_event, ctlPc,
                   prodVars, cbVars, gen, enqLog, deqLog>>

\* resume()
Resume ==
    /\ ctlPc = "ready"
    /\ is_playing /\ is_paused
    /\ pause_event' = TRUE
    /\ is_paused' = FALSE
    /\ UNCHANGED <<netVars, fxVars, extVars, stream_output_queue, engineVars, is_playing,
                   playback_position_sec, seek_request, stop_event, ctlPc,
                   prodVars, cbVars, gen, enqLog, deqLog>>

\* set_position(t), in Playing or Paused: clears the queue and leaves the seek
\* to the producer thread, which owns the decoder; the playing state stays.
SetPosition(t) ==
    /\ ctlPc = "ready"
    /\ is_playing
    /\ gen < MaxGen
    /\ ClearQueue
    /\ seek_request' = t
    /\ gen' = gen + 1
    /\ UNCHANGED <<netVars, fxVars, extVars, engineVars, is_playing, is_paused, playback_position_sec,
                   stop_event, pause_event, ctlPc, prodVars, cbVars>>

\* stop(), first half: the producer is told to end (and woken if paused).
StopSignal ==
    /\ ctlPc = "ready"
    /\ is_playing
    /\ gen < MaxGen
    /\ stop_event' = TRUE
    /\ pause_event' = TRUE
    /\ ctlPc' = "stop_join"
    /\ UNCHANGED <<netVars, fxVars, extVars, stream_output_queue, engineVars, is_playing, is_paused,
                   playback_position_sec, seek_request, prodVars, cbVars, gen,
                   enqLog, deqLog>>

\* stop(), second half: the producer is joined, the queue cleared, the
\* position reset.
StopJoined ==
    /\ ctlPc = "stop_join"
    /\ prodPc = "done"
    /\ ClearQueue
    /\ prodPc' = "none"
    /\ is_playing' = FALSE
    /\ is_paused' = FALSE
    /\ playback_position_sec' = 0
    /\ seek_request' = None
    /\ gen' = gen + 1
    /\ ctlPc' = "ready"
    /\ stream' = stop_sound_stream(stream)
    /\ transition_request' = FALSE
    /\ engLast' = OtherEngCall
    /\ UNCHANGED <<netVars, fxVars, volVars, chVars, current_file, playlist, current_index,
                   shuffle_mode, repeat_mode, shuffled_indices,
                   current_shuffled_play_order_idx, ctlArg, hostLast,
                   engineVars, stop_event, pause_event, prodHeld, nextId, cbVars>>

\* One turn of the producer loop up to the put: the stop check, the pause
\* wait, a pending seek (decoder seek, queue cleared), then the read of the
\* next block, which is run through the effects chain.
ProducerRead ==
    /\ prodPc = "loop"
    /\ ~stop_event
    /\ pause_event
    /\ nextId < MaxProduced
    /\ IF seek_request # None
       THEN /\ ClearQueue
            /\ playback_position_sec' = seek_request + 1
       ELSE /\ UNCHANGED <<stream_output_queue, enqLog, deqLog>>
            /\ playback_position_sec' = playback_position_sec + 1
    /\ seek_request' = None
    /\ prodHeld' = Block(nextId + 1, gen, DecodedBlock)
    /\ nextId' = nextId + 1
    /\ prodPc' = "put"
    /\ UNCHANGED <<netVars, fxVars, extVars, engineVars, is_playing, is_paused, stop_event, pause_event,
                   ctlPc, cbVars, gen>>

\* The producer sees the stop event at the top of its loop and ends.
ProducerStopped ==
    /\ prodPc = "loop"
    /\ stop_event
    /\ prodPc' = "done"
    /\ UNCHANGED <<netVars, fxVars, extVars, stream_output_queue, engineVars, ctlVars, prodHeld, nextId,
                   cbVars, gen, enqLog, deqLog>>

\* stream_output_queue.put(block): waits while the queue is full.
ProducerPut ==
    /\ prodPc = "put"
    /\ ~QueueFull(stream_output_queue)
    /\ stream_output_queue' = QueuePut(stream_output_queue, prodHeld)
    /\ enqLog' = Append(enqLog, prodHeld.id)
    /\ prodHeld' = NoBlock
    /\ prodPc' = "loop"
    /\ UNCHANGED <<netVars, fxVars, extVars, engineVars, ctlVars, nextId, cbVars, gen, deqLog>>

\* The put timed out on a full queue and the stop event is set: the producer
\* gives the block up and ends (without a stop it retries the put).
ProducerPutAbandoned ==
    /\ prodPc = "put"
    /\ QueueFull(stream_output_queue)
    /\ stop_event
    /\ prodHeld' = NoBlock
    /\ prodPc' = "done"
    /\ UNCHANGED <<netVars, fxVars, extVars, stream_output_queue, engineVars, ctlVars, nextId, cbVars,
                   gen, enqLog, deqLog>>

\* The audio library invokes the callback of the active stream, with the
\* channels the stream was opened with and block_size frames.
CbInvoke == stream.active /\ SdCallback(block_size, stream.channels)

Next ==
    \/ Play
    \/ Pause
    \/ Resume
    \/ \E t \in {0, 2} : SetPosition(t)
    \/ StopSignal
    \/ StopJoined
    \/ ProducerRead
    \/ ProducerStopped
    \/ ProducerPut
    \/ ProducerPutAbandoned
    \/ CbInvoke

Spec == Init /\ [][Next]_vars

\* -------------------------------------- tracks, load and the playlist
\* The files: tracks A, B, C with their stream properties, and a path that
\* cannot be opened (missing, or of an unsupported format).
Tracks == {1, 2, 3}
BadPath == 9
Paths == Tracks \cup {BadPath}
TrackProps(path) ==
    CASE path = 1 -> [sample_rate |-> 44100, channels |-> 2]
      [] path = 2 -> [sample_rate |-> 48000, channels |-> 2]
      [] path = 3 -> [sample_rate |-> 44100, channels |-> 1]

\* The playlist a load is given as its context.
Contexts == {<<1, 2, 3>>}

\* Index (from 0) of x in the sequence, -1 when it is not in it.
IndexOf(seq, x) ==
    IF \E k \in 1..Len(seq) : seq[k] = x
    THEN (CHOOSE k \in 1..Len(seq) : seq[k] = x) - 1
    ELSE -1

\* The sequence without its element at index i (from 0).
RemoveAt(seq, i) ==
    [k \in 1..(Len(seq) - 1) |-> IF k <= i THEN seq[k] ELSE seq[k + 1]]

\* The orders _apply_shuffle can draw for n tracks: the permutations of the
\* indices 0..n-1 that start with the current track when there is one.
ShuffleOrders(n, cur) ==
    {f \in [1..n -> 0..(n - 1)] :
        /\ \A a, c \in 1..n : a # c => f[a] # f[c]
        /\ (cur # -1 /\ n > 0) => f[1] = cur}

\* The effects chain's set_stream_properties: each member's in turn; what a
\* member raises goes to the caller and the members after it are not reached.
RECURSIVE ChainSetStreamProperties(_, _, _, _, _)
ChainSetStreamProperties(c, k, sr, ch, rnd) ==
    IF k > Len(c) THEN [chain |-> c, raised |-> FALSE]
    ELSE LET r == set_stream_properties(c[k], sr, ch, rnd, rnd)
             c1 == [c EXCEPT ![k] = r.e]
         IN  IF r.raised THEN [chain |-> c1, raised |-> TRUE]
             ELSE ChainSetStreamProperties(c1, k + 1, sr, ch, rnd)

\* The draws a call on the chain can make: a Chorus in it draws.
ChainDraws(c) ==
    IF \E k \in 1..Len(c) : c[k].cls = "Chorus"
    THEN RandomDraws
    ELSE {[i \in 1..DefaultNumVoices |-> 10]}

\* (A next index that stops at the end of the order whatever the repeat mode,
\* for C18.)
NextIndexNoWrap ==
    LET n == Len(playlist)
    IN  IF n = 0 THEN -1
        ELSE IF shuffle_mode
        THEN LET p == current_shuffled_play_order_idx + 1
             IN  IF p < n THEN shuffled_indices[p + 1] ELSE -1
        ELSE LET i == current_index + 1
             IN  IF i < n THEN i ELSE -1

\* get_next_track_info: the index of the track after the current one in the
\* active order, -1 when there is none.
NextIndex ==
    LET n == Len(playlist)
    IN  IF n = 0 THEN -1
        ELSE IF shuffle_mode
        THEN LET p == current_shuffled_play_order_idx + 1
             IN  IF p < n THEN shuffled_indices[p + 1]
                 ELSE IF repeat_mode = "all" THEN shuffled_indices[1] ELSE -1
        ELSE LET i == current_index + 1
             IN  IF i < n THEN i
                 ELSE IF repeat_mode = "all" THEN 0 ELSE -1

\* The index of the track before the current one in the active order, -1
\* when there is none.
PreviousIndex ==
    LET n == Len(playlist)
    IN  IF n = 0 THEN -1
        ELSE IF shuffle_mode
        THEN LET p == current_shuffled_play_order_idx - 1
             IN  IF p >= 0 THEN shuffled_indices[p + 1]
                 ELSE IF repeat_mode = "all" THEN shuffled_indices[n] ELSE -1
        ELSE LET i == current_index - 1
             IN  IF i >= 0 THEN i
                 ELSE IF repeat_mode = "all" THEN n - 1 ELSE -1

QueuedIds == [i \in 1..Len(stream_output_queue) |-> stream_output_queue[i].id]

IsPrefix(s, t) == Len(s) <= Len(t) /\ SubSeq(t, 1, Len(s)) = s

\* C2: between two clears of the queue, the blocks the callback has taken
\* are, in order, the first blocks the producer put (a prefix), and the others
\* are still queued in the order they were put: none is lost.
C2_FifoOrder ==
    /\ IsPrefix(deqLog, enqLog)
    /\ enqLog = deqLog \o QueuedIds

\* C2 witness: the callback has taken two blocks while the producer kept
\* putting; two more are queued.
C2_Witness ==
    /\ Len(deqLog) >= 2
    /\ Len(stream_output_queue) >= 2
    /\ cbLast.took /\ cbLast.id = deqLog[Len(deqLog)]

\* C6: the queue never holds more than its 15 blocks, and while it is full
\* the only change to it is a removal (the callback's get or a clear): a put
\* waits, neither growing the queue nor replacing a queued block.
C6_BoundedQueue ==
    /\ [](Len(stream_output_queue) <= QueueMaxSize)
    /\ [][(Len(stream_output_queue) = QueueMaxSize
             /\ stream_output_queue' # stream_output_queue) =>
          \/ stream_output_queue' = Tail(stream_output_queue)
          \/ stream_output_queue' = <<>>]_vars

\* C6 witness: the queue is full and the producer holds a block it cannot put.
C6_Witness ==
    /\ Len(stream_output_queue) = QueueMaxSize
    /\ prodPc = "put" /\ prodHeld # NoBlock

\* --------------------------------------------- the callback on its own: SpecCb
\* The callback is a function of the queue, the volume and mute fields and its
\* arguments. SpecCb draws volume and is_muted, lets a producer push blocks of
\* every shape, and lets the audio library invoke the callback for a stream of
\* every channel count.
InitCb ==
    /\ stream_output_queue = <<>>
    /\ volume \in {0, DefaultVolume}
    /\ is_muted \in BOOLEAN
    /\ sample_rate = DefaultSampleRate
    /\ channels \in 1..MaxCh
    /\ is_playing = TRUE /\ is_paused = FALSE
    /\ playback_position_sec = 0 /\ seek_request = None
    /\ stop_event = FALSE /\ pause_event = TRUE
    /\ prodPc = "loop" /\ prodHeld = NoBlock /\ ctlPc = "ready"
    /\ outdata = StaleBuffer(block_size, channels)
    /\ cbLast = NeverCalled
    /\ gen = 0 /\ nextId = 0 /\ enqLog = <<>> /\ deqLog = <<>>
    /\ fx = GainEffect /\ fxLast = NoCall /\ fxSeq = "fresh"
    /\ fxIn = NoArray /\ fxOut = NoArray
    /\ ExtState([open |-> TRUE, active |-> TRUE,
                 samplerate |-> DefaultSampleRate, channels |-> channels],
                1, <<1>>, 0)

\* The producer's put of one block (any shape), waiting while the queue is full.
CbPush ==
    /\ ~QueueFull(stream_output_queue)
    /\ nextId < MaxPush
    /\ \E a \in BlockArrays :
          stream_output_queue' =
              QueuePut(stream_output_queue, Block(nextId + 1, gen, a))
    /\ nextId' = nextId + 1
    /\ enqLog' = Append(enqLog, nextId + 1)
    /\ UNCHANGED <<netVars, fxVars, extVars, engineVars, ctlVars, prodPc, prodHeld, cbVars, gen, deqLog>>

NextCb == CbPush \/ CbInvoke

SpecCb == InitCb /\ [][NextCb]_vars

\* C3: a callback invocation that finds the queue empty raises nothing and
\* leaves the output buffer all zeros, of the shape (frames, channels) it was
\* asked for; the queue is still empty afterwards, so this repeats on every
\* invocation until a block is pushed.
C3_UnderrunSilence ==
    [][(CbInvoke /\ stream_output_queue = <<>>) =>
          /\ ~cbLast'.escaped
          /\ AllZero(outdata')
          /\ outdata'.shape = <<block_size, channels>>
          /\ stream_output_queue' = <<>>]_vars

\* C3 witness: a callback found the queue empty and left silence.
C3_Witness ==
    /\ cbLast.called /\ cbLast.qEmpty /\ ~cbLast.escaped
    /\ AllZero(outdata)
    /\ stream_output_queue = <<>>

\* The oldest queued block has the shape (frames, channels) the callback is
\* asked for.
HeadMatches ==
    /\ stream_output_queue # <<>>
    /\ Head(stream_output_queue).arr.shape = <<block_size, channels>>

\* C4: when the callback takes a block of the frame count and channel count it
\* was asked for, it writes block * volume when not muted and zeros when muted,
\* and removes exactly that one block from the queue.
C4_MatchingBlockIsScaled ==
    [][(CbInvoke /\ HeadMatches) =>
          /\ outdata'.shape = <<block_size, channels>>
          /\ \A t \in Idx(outdata'.shape) :
                outdata'.val[t] =
                    IF is_muted THEN 0
                    ELSE Head(stream_output_queue).arr.val[t] * volume
          /\ stream_output_queue' = Tail(stream_output_queue)
          /\ Len(stream_output_queue') = Len(stream_output_queue) - 1]_vars

\* C4 witness: a matching block was written at a non-zero volume, unmuted,
\* and a later block is still queued.
C4_Witness ==
    /\ cbLast.took /\ cbLast.write = "block"
    /\ ~is_muted /\ volume > 0
    /\ ~AllZero(outdata)
    /\ stream_output_queue # <<>>

\* C5: when the callback takes a block whose frame count or channel count is
\* not what it was asked for (whatever its shape, a one-dimensional block
\* included), it writes zeros and no exception leaves it.
C5_MismatchIsSilence ==
    [][(CbInvoke /\ stream_output_queue # <<>> /\ ~HeadMatches) =>
          /\ ~cbLast'.escaped
          /\ outdata'.shape = <<block_size, channels>>
          /\ AllZero(outdata')
          /\ stream_output_queue' = Tail(stream_output_queue)]_vars

\* C5 witness: a one-dimensional block of the right length made
\* block.shape[1] raise IndexError, and the callback wrote zeros.
C5_Witness ==
    /\ cbLast.took /\ cbLast.exc = "IndexError" /\ ~cbLast.escaped
    /\ AllZero(outdata)

\* ------------------------------------------- one effect on its own: SpecFx
\* An effect is constructed (GainEffect or Chorus) and then set_parameter,
\* set_stream_properties and reset are called on it in any order, with any
\* value.
EngineOwn ==
    /\ stream_output_queue = <<>>
    /\ volume = DefaultVolume
    /\ is_muted = FALSE
    /\ sample_rate = DefaultSampleRate
    /\ channels = DefaultChannels
    /\ is_playing = FALSE /\ is_paused = FALSE
    /\ playback_position_sec = 0 /\ seek_request = None
    /\ stop_event = FALSE /\ pause_event = TRUE
    /\ prodPc = "none" /\ prodHeld = NoBlock /\ ctlPc = "ready"
    /\ outdata = StaleBuffer(block_size, DefaultChannels)
    /\ cbLast = NeverCalled
    /\ gen = 0 /\ nextId = 0 /\ enqLog = <<>> /\ deqLog = <<>>

EngineIdle == EngineOwn /\ ExtIdle

engineAll == <<stream_output_queue, engineVars, ctlVars, prodVars, cbVars, gen,
               enqLog, deqLog, extVars, netVars>>

InitFx ==
    /\ EngineIdle
    /\ fx \in {GainEffect} \cup {Chorus(rnd) : rnd \in RandomDraws}
    /\ fxLast = NoCall
    /\ fxSeq = "fresh"
    /\ fxIn = NoArray /\ fxOut = NoArray

FxSetParameter ==
    \E name \in ParamNames, value \in ParamValues :
      \E rnd \in DrawsFor(fx, name) :
        LET r == set_parameter(fx, name, value, rnd)
        IN  /\ fx' = r.e
            /\ fxLast' = [op |-> "set_parameter", name |-> name, value |-> value,
                          known |-> name \in DOMAIN fx.parameters,
                          raised |-> r.raised, sr |-> 0, ch |-> 0]
            /\ fxSeq' = IF fxSeq \in {"fresh", name} THEN name ELSE "mixed"
            /\ UNCHANGED <<engineAll, fxIn, fxOut>>

FxSetStreamProperties ==
    \E sr \in SampleRates, ch \in ChannelCounts :
      \E rnd \in DrawsFor(fx, "_stream_props_changed") :
        LET r == set_stream_properties(fx, sr, ch, rnd, rnd)
        IN  /\ fx' = r.e
            /\ fxLast' = [op |-> "set_stream_properties", name |-> "",
                          value |-> PyNone, known |-> FALSE, raised |-> r.raised,
                          sr |-> sr, ch |-> ch]
            /\ fxSeq' = "mixed"
            /\ UNCHANGED <<engineAll, fxIn, fxOut>>

FxReset ==
    \E rnd \in DrawsFor(fx, "reset") :
        LET r == reset(fx, rnd)
        IN  /\ fx' = r.e
            /\ fxLast' = [op |-> "reset", name |-> "", value |-> PyNone,
                          known |-> FALSE, raised |-> r.raised, sr |-> 0, ch |-> 0]
            /\ fxSeq' = "mixed"
            /\ UNCHANGED <<engineAll, fxIn, fxOut>>

NextFx == FxSetParameter \/ FxSetStreamProperties \/ FxReset

SpecFx == InitFx /\ [][NextFx]_vars

\* The derived state of an effect agrees with the parameters it holds: a
\* GainEffect's gain_linear is 10 ** (gain_db / 20); a Chorus has num_voices
\* voices, each with an LFO rate that is the stored rate_hz times (1 + u) for
\* a draw u.
DerivedStateConsistent(e) ==
    IF e.cls = "Gain"
    THEN /\ e.parameters["gain_db"].t = "num"
         /\ e.gain_linear = GainLinear(e.parameters["gain_db"].n)
    ELSE /\ e.parameters["num_voices"].t = "num"
         /\ Len(e.voices_data) = e.parameters["num_voices"].n
         /\ e.parameters["rate_hz"].t = "num"
         /\ \A i \in 1..Len(e.voices_data) :
               \E u \in Jitter :
                   e.voices_data[i].lfo_rate_hz =
                       e.parameters["rate_hz"].n * (100 + u)

\* C7: after set_parameter has returned for a known parameter name, the
\* derived state agrees with the stored parameters, whatever value was passed
\* and whatever calls came before.
C7_DerivedStateFollowsParameters ==
    (fxLast.op = "set_parameter" /\ fxLast.known /\ ~fxLast.raised)
        => DerivedStateConsistent(fx)

\* C8: set_parameter with a name that is not a key of parameters returns
\* without raising and changes nothing: not the parameters (no key is added)
\* and not the derived state.
C8_UnknownNameChangesNothing ==
    [][(fxLast'.op = "set_parameter" /\ ~fxLast'.known) =>
          /\ ~fxLast'.raised
          /\ DOMAIN fx'.parameters = DOMAIN fx.parameters
          /\ fx' = fx]_vars

\* C8 witness: set_parameter was called with an unknown name on an effect
\* whose parameters and derived state earlier calls had changed.
C8_Witness ==
    /\ fxLast.op = "set_parameter" /\ ~fxLast.known /\ ~fxLast.raised
    /\ fxSeq = "mixed"
    /\ fx.cls = "Gain" /\ fx.gain_linear = GainLinear(3)

\* The derived state of an effect.
Derived(e) ==
    [gain_linear |-> e.gain_linear, voices_data |-> e.voices_data,
     write_idx |-> e.write_idx]

\* The effects a fresh construction can give (a Chorus draws at random).
FreshEffects(cls) ==
    IF cls = "Gain" THEN {GainEffect} ELSE {Chorus(rnd) : rnd \in RandomDraws}

\* C9: when every call since construction was a set_parameter of one
\* parameter, the derived state is one that a freshly constructed effect has
\* after the single call set_parameter(name, X), X being the last value passed.
C9_DerivedStateIsHistoryFree ==
    (fxSeq \notin {"fresh", "mixed"}) =>
        \E fresh \in FreshEffects(fx.cls), rnd \in RandomDraws :
            Derived(fx) = Derived(set_parameter(fresh, fxSeq, fxLast.value, rnd).e)

\* ------------------------------------------------- process_block: SpecPb
\* process_block changes no field of the effect: it is a function of the
\* effect and the block. SpecPb starts from an effect as the calls above leave
\* it (constructed, gain_db set, stream properties set, enabled and bypass
\* set by the host) and passes it blocks of every one- and two-dimensional
\* shape.
ConfiguredEffects ==
    {set_stream_properties(set_parameter(e0, "gain_db", v, rnd).e,
                           sr, ch, rnd, rnd).e :
        e0 \in FreshEffects("Gain") \cup FreshEffects("Chorus"),
        v \in {Num(0), Num(3)}, sr \in SampleRates, ch \in ChannelCounts,
        rnd \in RandomDraws}

InputShapes ==
    Shapes1 \cup {<<n, c>> : n \in 1..MaxFrames, c \in 1..MaxFxCh}
InputBlocks == {Signal(shp, -4) : shp \in InputShapes}

InitPb ==
    /\ EngineIdle
    /\ \E e \in ConfiguredEffects, en \in BOOLEAN, by \in BOOLEAN :
          fx = [e EXCEPT !.enabled = en, !.bypass = by]
    /\ fxLast = NoCall
    /\ fxSeq = "mixed"
    /\ fxIn = NoArray /\ fxOut = NoArray

PbProcessBlock ==
    \E audio_block \in InputBlocks :
        LET r == process_block(fx, audio_block)
        IN  /\ fxIn' = audio_block
            /\ fxOut' = r
            /\ fxLast' = [op |-> "process_block", name |-> "", value |-> PyNone,
                          known |-> FALSE, raised |-> FALSE, sr |-> 0, ch |-> 0]
            /\ UNCHANGED <<engineAll, fx, fxSeq>>

NextPb == PbProcessBlock

SpecPb == InitPb /\ [][NextPb]_vars

\* A block is mono: one-dimensional, or two-dimensional with one column.
IsMono(a) == Len(a.shape) = 1 \/ (Len(a.shape) = 2 /\ a.shape[2] = 1)
MonoSample(a, i) == IF Len(a.shape) = 1 THEN a.val[<<i>>] ELSE a.val[<<i, 1>>]

\* The effect's own processing is the identity: a Chorus (its voices are not
\* run), or a GainEffect at 0 dB.
UnityEffect(e) == e.cls = "Chorus" \/ e.gain_linear = 1000

\* C10: for an enabled, non-bypassed effect (whose own processing is the
\* identity), process_block turns a mono block, in either mono layout, for an
\* effect of 2 channels into a block of the same frames and exactly 2
\* channels, both equal to the mono input; and a stereo block for an effect of
\* 1 channel into a block of the same frames and one channel, the average of
\* the two input channels.
C10_ChannelAdaptation ==
    (fxLast.op = "process_block" /\ fx.enabled /\ ~fx.bypass /\ UnityEffect(fx)) =>
       /\ (IsMono(fxIn) /\ fx.channels = 2) =>
             /\ fxOut.block.shape = <<fxIn.shape[1], 2>>
             /\ \A i \in 1..fxIn.shape[1], c \in 1..2 :
                   fxOut.block.val[<<i, c>>] = MonoSample(fxIn, i)
       /\ (Len(fxIn.shape) = 2 /\ fxIn.shape[2] = 2 /\ fx.channels = 1) =>
             /\ fxOut.block.shape = <<fxIn.shape[1], 1>>
             /\ \A i \in 1..fxIn.shape[1] :
                   2 * fxOut.block.val[<<i, 1>>] =
                       fxIn.val[<<i, 1>>] + fxIn.val[<<i, 2>>]

\* The channels of a block as process_block counts them.
BlockChannels(a) == IF Len(a.shape) = 2 THEN a.shape[2] ELSE 1

\* C11: for an enabled, non-bypassed effect (whose own processing is the
\* identity) the channel adaptation is total: a mono block for an effect of
\* N >= 2 channels comes back with N channels, each equal to the mono input;
\* a block of N >= 2 channels for an effect of 1 channel comes back with one
\* channel, the average of the N; for every other mismatch the block comes
\* back as it was.
C11_ChannelAdaptationIsTotal ==
    (fxLast.op = "process_block" /\ fx.enabled /\ ~fx.bypass /\ UnityEffect(fx)) =>
       /\ (IsMono(fxIn) /\ fx.channels >= 2) =>
             /\ fxOut.block.shape = <<fxIn.shape[1], fx.channels>>
             /\ \A i \in 1..fxIn.shape[1], c \in 1..fx.channels :
                   fxOut.block.val[<<i, c>>] = MonoSample(fxIn, i)
       /\ (Len(fxIn.shape) = 2 /\ fxIn.shape[2] >= 2 /\ fx.channels = 1) =>
             /\ fxOut.block.shape = <<fxIn.shape[1], 1>>
             /\ \A i \in 1..fxIn.shape[1] :
                   fxIn.shape[2] * fxOut.block.val[<<i, 1>>] =
                       RowSum(fxIn, i, fxIn.shape[2])
       /\ (BlockChannels(fxIn) # fx.channels /\ BlockChannels(fxIn) # 1
              /\ fx.channels # 1) =>
             fxOut.block = fxIn

C13_ResetKeepsParameters ==
    [][/\ (fxLast'.op \in {"reset", "set_stream_properties"}) =>
             /\ fx'.parameters = fx.parameters
             /\ fx'.enabled = fx.enabled /\ fx'.bypass = fx.bypass
             /\ fx'.gain_linear = fx.gain_linear
       /\ (fxLast'.op = "reset") =>
             /\ fx'.sample_rate = fx.sample_rate
             /\ fx'.channels = fx.channels
       /\ (fxLast'.op = "set_parameter" /\ fxLast'.known /\ fx.cls = "Chorus") =>
             fx'.parameters =
                 [fx.parameters EXCEPT ![fxLast'.name] = fxLast'.value]]_vars

\* C13 witness: reset has run on a Chorus whose rate_hz and num_voices are
\* not the defaults, and made its voices.
C13_Witness ==
    /\ fxLast.op = "reset" /\ ~fxLast.raised
    /\ fx.cls = "Chorus"
    /\ fx.parameters["rate_hz"] = Num(3)
    /\ fx.parameters["num_voices"] = Num(0)
    /\ fx.sample_rate = 48000

\* C14: after set_stream_properties(sample_rate, channels) has returned the
\* effect holds these two values, and in every state between operations each
\* voice buffer of a Chorus has int(0.025 * sample_rate) frames and `channels`
\* columns for the sample_rate and channels the effect holds.
C14_BuffersFollowStreamProperties ==
    /\ (fxLast.op = "set_stream_properties" /\ ~fxLast.raised) =>
          /\ fx.sample_rate = fxLast.sr
          /\ fx.channels = fxLast.ch
    /\ \A i \in 1..Len(fx.voices_data) :
          /\ fx.voices_data[i].frames = (25 * fx.sample_rate) \div 1000
          /\ fx.voices_data[i].chans = fx.channels

\* C14 witness: a Chorus with voices was moved from 44100 Hz stereo to
\* 48000 Hz mono.
C14_Witness ==
    /\ fxLast.op = "set_stream_properties" /\ ~fxLast.raised
    /\ fxLast.sr = 48000 /\ fxLast.ch = 1
    /\ fx.cls = "Chorus" /\ Len(fx.voices_data) = DefaultNumVoices
    /\ fx.voices_data[1].frames = 1200 /\ fx.voices_data[1].chans = 1

\* ------------------------------------------- the controller: SpecEng
\* The controller's operations on the track, the stream and the playlist.
\* The block traffic (the producer's read and put, the callback) writes none
\* of these variables and is left to Spec; here the producer thread starts,
\* is told to stop, ends, and reaches the end of its file.

\* HostAppInterface.request_playback_action. The branches of its dispatch:
\* the actions whose call sits behind `if <component> and hasattr(...)`, and
\* the actions that call the engine's method directly.
GuardedActions ==
    {"load_track_from_path", "load_and_play_path", "play_track_by_id",
     "play_track_at_playlist_index", "toggle_mute", "add_to_queue_path",
     "load_playlist_paths", "set_shuffle_mode", "set_repeat_mode",
     "force_sync_playback"}

\* (A dispatch without the "seek" branch, for C22.)
DirectActionsWithoutSeek ==
    {"play", "pause", "resume", "stop", "next", "previous", "set_volume"}

DirectActions ==
    {"play", "pause", "resume", "stop", "next", "previous", "set_volume",
     "seek"}

KnownActions == GuardedActions \cup DirectActions

\* The operation each branch calls.
DispatchTarget(action) ==
    CASE action = "load_track_from_path" -> "main_player_ui.load_track"
      [] action = "load_and_play_path" -> "main_player_ui.load_track_and_play"
      [] action = "play_track_by_id" -> "main_player_ui.play_track_by_id_from_library"
      [] action = "play_track_at_playlist_index" -> "audio_engine.play_track_at_playlist_index"
      [] action = "play" -> "audio_engine.play"
      [] action = "pause" -> "audio_engine.pause"
      [] action = "resume" -> "audio_engine.resume"
      [] action = "stop" -> "audio_engine.stop"
      [] action = "next" -> "audio_engine.next_track"
      [] action = "previous" -> "audio_engine.previous_track"
      [] action = "set_volume" -> "audio_engine.set_volume"
      [] action = "seek" -> "audio_engine.set_position"
      [] action = "toggle_mute" -> "audio_engine.toggle_mute"
      [] action = "add_to_queue_path" -> "main_player_ui.add_to_playback_queue"
      [] action = "load_playlist_paths" -> "audio_engine.load_playlist"
      [] action = "set_shuffle_mode" -> "audio_engine.set_shuffle_mode"
      [] action = "set_repeat_mode" -> "audio_engine.set_repeat_mode"
      [] action = "force_sync_playback" -> "main_player_ui.force_sync_local_player_to_state"
      [] OTHER -> "none"

\* What a request leaves behind: success and err_msg as handed to the
\* callback, the operation that was called ("none": no call was made), how
\* many times the callback was scheduled with root.after, and whether an
\* exception left request_playback_action.
HostResult(action, success, err_msg, dispatched, scheduled) ==
    [action |-> action, success |-> success, err_msg |-> err_msg,
     dispatched |-> dispatched, scheduled |-> scheduled,
     called_back |-> scheduled > 0, propagated |-> FALSE]

\* `except AttributeError` and `except Exception` of request_playback_action.
HostCatches(exc) == exc \in {"AttributeError", "Exception"}

\* A request whose try block raised exc: the handlers set err_msg and the
\* final `if callback` runs; an exception no handler catches leaves the
\* function before it.
HostRaised(action, exc, dispatched, sched) ==
    IF HostCatches(exc)
    THEN HostResult(action, FALSE,
                    IF exc = "AttributeError" THEN "component missing method"
                    ELSE "error executing",
                    dispatched, sched)
    ELSE [HostResult(action, FALSE, "none", dispatched, 0)
              EXCEPT !.propagated = TRUE]

\* The try block of request_playback_action: the dispatch on the action name
\* with its two handlers. sched: what the final `if callback` schedules.
Dispatch(action, present, raised, sched) ==
    IF action \notin KnownActions
    THEN HostResult(action, FALSE, "unknown action", "none", sched)
    ELSE IF ~present /\ action \in GuardedActions
    THEN \* the `if` is false: nothing is called, nothing is assigned
         HostResult(action, FALSE, "none", "none", sched)
    ELSE IF ~present /\ action = "resume"
    THEN \* else: self.audio_engine_ref.play()
         IF raised
         THEN HostRaised(action, "Exception", "audio_engine.play", sched)
         ELSE HostResult(action, TRUE, "none", "audio_engine.play", sched)
    ELSE IF ~present
    THEN \* the attribute lookup on the engine fails
         HostRaised(action, "AttributeError", "none", sched)
    ELSE IF raised
    THEN HostRaised(action, "Exception", DispatchTarget(action), sched)
    ELSE HostResult(action, TRUE, "none", DispatchTarget(action), sched)

\* (A request_playback_action whose "engine not available" branch does not
\* return: it goes on to the dispatch, where every call on the missing engine
\* raises, and to the final `if callback`; for C28.)
RequestPlaybackActionNoReturn(action, engine, present, raised, cb) ==
    LET sched == IF cb THEN 1 ELSE 0
    IN  IF ~engine
        THEN HostResult(action, FALSE, "engine not available", "none",
                        sched + sched)
        ELSE Dispatch(action, present, raised, sched)

\* request_playback_action(action, params, callback). engine: audio_engine_ref
\* is set; present: the component and the method the action needs are there;
\* raised: the operation that was called raised; cb: a callback was passed.
RequestPlaybackAction(action, engine, present, raised, cb) ==
    LET sched == IF cb THEN 1 ELSE 0
    IN  IF ~engine
        THEN HostResult(action, FALSE, "engine not available", "none", sched)
        ELSE Dispatch(action, present, raised, sched)

\* The start of load_track (and of every operation that loads a track): the
\* stop() it begins with signals the producer and waits for it.
BeginLoad(arg, tr) ==
    /\ ctlPc = "ready"
    /\ ctlPc' = "load_join"
    /\ ctlArg' = arg
    /\ transition_request' = tr
    /\ stop_event' = TRUE
    /\ pause_event' = TRUE
    /\ UNCHANGED <<netVars, fxVars, volVars, chVars, stream, current_file, playlist,
                   current_index, shuffle_mode, repeat_mode, shuffled_indices,
                   current_shuffled_play_order_idx, engLast, hostLast,
                   stream_output_queue, engineVars, is_playing, is_paused,
                   playback_position_sec, seek_request, prodVars, cbVars,
                   gen, enqLog, deqLog>>

LoadArg(op, path, index, context, then_play, via_host, why) ==
    [op |-> op, path |-> path, index |-> index, context |-> context,
     then_play |-> then_play, via_host |-> via_host, why |-> why]

\* load_track(filepath)
LoadTrack ==
    \E path \in Paths :
        BeginLoad(LoadArg("load_track", path, -1, <<>>, FALSE, FALSE, "user"),
                  transition_request)

\* load_track(filepath, playlist_context, playlist_index), then play
LoadTrackInContext ==
    \E pl \in Contexts : \E i \in 0..(Len(pl) - 1) :
        BeginLoad(LoadArg("load_track", pl[i + 1], i, pl, TRUE, FALSE, "user"),
                  transition_request)

\* request_playback_action("load_track_from_path" / "load_and_play_path")
HostLoadTrack ==
    \E path \in Paths, and_play \in BOOLEAN :
        BeginLoad(LoadArg(IF and_play THEN "load_and_play_path"
                          ELSE "load_track_from_path",
                          path, -1, <<>>, and_play, TRUE, "user"),
                  transition_request)

\* next_track(): nothing when there is no next track.
NextTrack ==
    /\ NextIndex # -1
    /\ BeginLoad(LoadArg("next_track", playlist[NextIndex + 1], NextIndex, <<>>,
                         TRUE, FALSE, "user"),
                 transition_request)

\* previous_track()
PreviousTrack ==
    /\ PreviousIndex # -1
    /\ BeginLoad(LoadArg("previous_track", playlist[PreviousIndex + 1],
                         PreviousIndex, <<>>, TRUE, FALSE, "user"),
                 transition_request)

\* play_track_at_playlist_index(i): nothing for an index outside the playlist.
PlayTrackAtPlaylistIndex ==
    \E i \in 0..(Len(playlist) - 1) :
        BeginLoad(LoadArg("play_track_at_playlist_index", playlist[i + 1], i,
                          <<>>, TRUE, FALSE, "user"),
                  transition_request)

\* The rest of load_track, once the producer has ended: the stop is
\* completed (queue cleared, stream stopped, position 0, state Stopped), the
\* file is opened, and when that succeeds the stream properties, the track,
\* the playlist and the effects chain are updated; operations that play the
\* track go on to play(). A file that cannot be opened makes load_track
\* return False with the track, the properties and the playlist left alone.
FinishLoad ==
    /\ ctlPc = "load_join"
    /\ prodPc \in {"none", "done"}
    /\ ClearQueue
    /\ is_paused' = FALSE
    /\ playback_position_sec' = 0
    /\ seek_request' = None
    /\ prodHeld' = NoBlock
    /\ transition_request' = FALSE
    /\ ctlPc' = "ready"
    /\ ctlArg' = NoArg
    /\ pause_event' = TRUE
    /\ hostLast' = IF ctlArg.via_host
                   THEN RequestPlaybackAction(ctlArg.op, TRUE, TRUE, FALSE, TRUE)
                   ELSE hostLast
    /\ IF ctlArg.path \notin Tracks
       THEN /\ engLast' = [op |-> "load_track", ok |-> FALSE,
                         path |-> ctlArg.path, why |-> ctlArg.why]
            /\ stream' = stop_sound_stream(stream)
            /\ is_playing' = FALSE
            /\ prodPc' = "none"
            /\ UNCHANGED <<sample_rate, channels, current_file, playlist,
                           current_index, shuffled_indices,
                           current_shuffled_play_order_idx, chain, chainProps,
                           stop_event>>
       ELSE LET props == TrackProps(ctlArg.path)
                new_pl == IF ctlArg.context # <<>> THEN ctlArg.context
                          ELSE IF ctlArg.index # -1 THEN playlist
                          ELSE <<ctlArg.path>>
                new_idx == IF ctlArg.index # -1 THEN ctlArg.index ELSE 0
            IN  /\ engLast' = [op |-> "load_track", ok |-> TRUE,
                             path |-> ctlArg.path, why |-> ctlArg.why]
                /\ sample_rate' = props.sample_rate
                /\ channels' = props.channels
                /\ current_file' = ctlArg.path
                /\ playlist' = new_pl
                /\ current_index' = new_idx
                /\ IF ~shuffle_mode
                   THEN UNCHANGED <<shuffled_indices, current_shuffled_play_order_idx>>
                   ELSE IF new_pl = playlist
                   THEN /\ UNCHANGED shuffled_indices
                        /\ current_shuffled_play_order_idx' =
                               IndexOf(shuffled_indices, new_idx)
                   ELSE /\ shuffled_indices' \in ShuffleOrders(Len(new_pl), new_idx)
                        /\ current_shuffled_play_order_idx' = 0
                /\ \E rnd \in ChainDraws(chain) :
                      chain' = ChainSetStreamProperties(
                                   chain, 1, props.sample_rate, props.channels,
                                   rnd).chain
                /\ chainProps' = props
                /\ IF ctlArg.then_play
                   THEN \E dev \in DeviceOutcomes :
                          LET r == start_sound_stream(stop_sound_stream(stream),
                                       props.sample_rate, props.channels, dev)
                          IN  /\ stream' = r.stream
                              /\ is_playing' = r.ok
                              /\ prodPc' = IF r.ok THEN "loop" ELSE "none"
                              /\ stop_event' = FALSE
                   ELSE /\ stream' = stop_sound_stream(stream)
                        /\ is_playing' = FALSE
                        /\ prodPc' = "none"
                        /\ UNCHANGED stop_event
    /\ UNCHANGED <<netVars, fxVars, volVars, chLast, shuffle_mode, repeat_mode, volume,
                   is_muted, nextId, cbVars, gen>>

\* The producer reads the end of its file: it leaves its loop and publishes
\* "playback_track_transition_request".
ProducerEof ==
    /\ prodPc = "loop"
    /\ ~stop_event
    /\ pause_event
    /\ prodPc' = "done"
    /\ transition_request' = TRUE
    /\ UNCHANGED <<netVars, fxVars, volVars, chVars, stream, current_file, playlist,
                   current_index, shuffle_mode, repeat_mode, shuffled_indices,
                   current_shuffled_play_order_idx, ctlArg, engLast, hostLast,
                   stream_output_queue, engineVars, ctlVars, prodHeld, nextId,
                   cbVars, gen, enqLog, deqLog>>

\* The track advance at the end of a track. Repeat One: seek to 0 and go on
\* with the same track. Otherwise the next track of the active order is
\* loaded and played (repeat All wraps); with no next track the engine stops.
HandleTransition ==
    /\ transition_request
    /\ ctlPc = "ready"
    /\ IF repeat_mode = "one"
       THEN /\ prodPc = "done"
            /\ prodPc' = "loop"
            /\ playback_position_sec' = 0
            /\ transition_request' = FALSE
            /\ engLast' = OtherEngCall
            /\ UNCHANGED <<netVars, fxVars, volVars, chVars, stream, current_file,
                           playlist, current_index, shuffle_mode, repeat_mode,
                           shuffled_indices, current_shuffled_play_order_idx,
                           ctlArg, hostLast, stream_output_queue, engineVars,
                           is_playing, is_paused, seek_request, stop_event,
                           pause_event, ctlPc, prodHeld, nextId, cbVars, gen,
                           enqLog, deqLog>>
       ELSE IF NextIndex # -1
       THEN BeginLoad(LoadArg("next_track", playlist[NextIndex + 1], NextIndex,
                              <<>>, TRUE, FALSE, "eof"),
                      FALSE)
       ELSE /\ prodPc = "done"
            /\ ClearQueue
            /\ prodPc' = "none"
            /\ is_playing' = FALSE
            /\ is_paused' = FALSE
            /\ playback_position_sec' = 0
            /\ seek_request' = None
            /\ stop_event' = TRUE
            /\ stream' = stop_sound_stream(stream)
            /\ transition_request' = FALSE
            /\ engLast' = OtherEngCall
            /\ UNCHANGED <<netVars, fxVars, volVars, chVars, current_file, playlist,
                           current_index, shuffle_mode, repeat_mode,
                           shuffled_indices, current_shuffled_play_order_idx,
                           ctlArg, hostLast, engineVars, pause_event, ctlPc,
                           prodHeld, nextId, cbVars, gen>>

\* What the playlist operations that load nothing leave alone.
PlaylistFrame ==
    UNCHANGED <<netVars, fxVars, volVars, chVars, stream, current_file,
                transition_request, ctlArg, hostLast, stream_output_queue,
                engineVars, ctlVars, prodVars, cbVars, gen, enqLog, deqLog>>

\* (A removal that takes the entry out of the shuffled order and leaves the
\* indices above it as they were, for C17.)
ShuffledWithoutNoRenumber(i) ==
    RemoveAt(shuffled_indices, IndexOf(shuffled_indices, i))

\* The shuffled order without playlist index i: its entry is taken out and
\* the indices above it move down by one.
ShuffledWithout(i) ==
    LET k == IndexOf(shuffled_indices, i)
        rest == RemoveAt(shuffled_indices, k)
    IN  [j \in 1..Len(rest) |-> IF rest[j] > i THEN rest[j] - 1 ELSE rest[j]]

\* remove_track_from_playlist_at_index(i) for an index of the playlist (for
\* any other it returns False and changes nothing). The current track keeps
\* being the current track under its new index; removing the current track
\* leaves no current track.
RemoveTrackFromPlaylistAtIndex ==
    /\ ctlPc = "ready"
    /\ \E i \in 0..(Len(playlist) - 1) :
          LET new_idx == IF i = current_index THEN -1
                         ELSE IF i < current_index THEN current_index - 1
                         ELSE current_index
              new_shuffled == IF shuffle_mode THEN ShuffledWithout(i) ELSE <<>>
          IN  /\ playlist' = RemoveAt(playlist, i)
              /\ current_index' = new_idx
              /\ shuffled_indices' = new_shuffled
              /\ current_shuffled_play_order_idx' =
                     IF shuffle_mode THEN IndexOf(new_shuffled, new_idx) ELSE -1
    /\ engLast' = OtherEngCall
    /\ UNCHANGED <<shuffle_mode, repeat_mode>>
    /\ PlaylistFrame

\* set_shuffle_mode(enable): switching shuffle on draws a new order that
\* starts with the current track; switching it off drops the order.
SetShuffleMode ==
    /\ ctlPc = "ready"
    /\ \E enable \in BOOLEAN :
          /\ shuffle_mode' = enable
          /\ IF enable
             THEN /\ shuffled_indices' \in ShuffleOrders(Len(playlist), current_index)
                  /\ current_shuffled_play_order_idx' =
                         IF current_index = -1 THEN -1 ELSE 0
             ELSE /\ shuffled_indices' = <<>>
                  /\ current_shuffled_play_order_idx' = -1
    /\ engLast' = OtherEngCall
    /\ UNCHANGED <<playlist, current_index, repeat_mode>>
    /\ PlaylistFrame

\* set_repeat_mode(mode)
SetRepeatMode ==
    /\ ctlPc = "ready"
    /\ \E mode \in {"off", "one", "all"} : repeat_mode' = mode
    /\ engLast' = OtherEngCall
    /\ UNCHANGED <<playlist, current_index, shuffle_mode, shuffled_indices,
                   current_shuffled_play_order_idx>>
    /\ PlaylistFrame

\* The engine as constructed, with the host's chain.
InitEng ==
    /\ EngineIdle
    /\ fx = GainEffect /\ fxLast = NoCall /\ fxSeq = "fresh"
    /\ fxIn = NoArray /\ fxOut = NoArray

NextEng ==
    \/ LoadTrack
    \/ LoadTrackInContext
    \/ HostLoadTrack
    \/ FinishLoad
    \/ Play
    \/ Pause
    \/ Resume
    \/ StopSignal
    \/ StopJoined
    \/ ProducerStopped
    \/ ProducerEof
    \/ HandleTransition
    \/ NextTrack
    \/ SetRepeatMode

SpecEng == InitEng /\ [][NextEng]_vars

\* The playlist operations: SpecPl. Every operation that writes the playlist,
\* the current index or the shuffle order, with the track advance at the end
\* of a track; play, pause and stop write none of them.
NextPl ==
    \/ LoadTrack
    \/ LoadTrackInContext
    \/ FinishLoad
    \/ ProducerStopped
    \/ ProducerEof
    \/ HandleTransition
    \/ NextTrack
    \/ PreviousTrack
    \/ PlayTrackAtPlaylistIndex
    \/ RemoveTrackFromPlaylistAtIndex
    \/ SetShuffleMode
    \/ SetRepeatMode

SpecPl == InitEng /\ [][NextPl]_vars

\* C15: in every state in which the output stream is active, it was opened
\* with the sample rate and the channels the engine now holds: a load that
\* changes them leaves no active stream of the track before.
C15_ActiveStreamHasCurrentProperties ==
    stream.active =>
        /\ stream.samplerate = sample_rate
        /\ stream.channels = channels

\* C15 witness: track B (48000 Hz; the engine starts at 44100 Hz) was loaded
\* and is played through an active stream.
C15_Witness ==
    /\ stream.active /\ stream.samplerate = 48000
    /\ current_file = 2 /\ is_playing
    /\ sample_rate = 48000

\* --------------------------------------------- the effects chain: SpecCh

\* The chain's process: the block goes through each enabled, non-bypassed
\* effect in insertion order.
RECURSIVE ChainProcess(_, _, _)
ChainProcess(c, k, block) ==
    IF k > Len(c) THEN block
    ELSE IF c[k].enabled /\ ~c[k].bypass
    THEN ChainProcess(c, k + 1, process_block(c[k], block).block)
    ELSE ChainProcess(c, k + 1, block)

\* The valid stream properties: a positive sample rate and channel count.
ValidSampleRates == SampleRates \ {0}

\* One draw stands for all in SpecCh: the draws set the voices' LFO rates,
\* which bear neither on what is raised nor on a block's shape.
OneDraw == [i \in 1..DefaultNumVoices |-> 10]

ChFrame ==
    UNCHANGED <<netVars, fxVars, plVars, volVars, stream_output_queue, engineVars,
                ctlVars, prodVars, cbVars, gen, enqLog, deqLog>>

\* add_effect(Chorus()), once: the effect is given the chain's stream
\* properties.
ChAddEffect ==
    /\ \A k \in 1..Len(chain) : chain[k].cls # "Chorus"
    /\ LET r == set_stream_properties(Chorus(OneDraw), chainProps.sample_rate,
                                      chainProps.channels, OneDraw, OneDraw)
       IN  /\ chain' = Append(chain, r.e)
           /\ chLast' = [op |-> "add_effect", raised |-> r.raised,
                         in |-> NoArray, out |-> NoArray]
    /\ UNCHANGED chainProps
    /\ ChFrame

\* set_parameter on a member of the chain (from the effects UI).
ChSetParameter ==
    \E k \in 1..Len(chain), name \in ParamNames, value \in ParamValues :
        LET r == set_parameter(chain[k], name, value, OneDraw)
        IN  /\ chain' = [chain EXCEPT ![k] = r.e]
            /\ chLast' = [op |-> "set_parameter", raised |-> r.raised,
                          in |-> NoArray, out |-> NoArray]
            /\ UNCHANGED chainProps
            /\ ChFrame

\* The bypass flag of a member is switched.
ChToggleBypass ==
    \E k \in 1..Len(chain) :
        /\ chain' = [chain EXCEPT ![k].bypass = ~chain[k].bypass]
        /\ chLast' = [op |-> "bypass", raised |-> FALSE,
                      in |-> NoArray, out |-> NoArray]
        /\ UNCHANGED chainProps
        /\ ChFrame

\* set_stream_properties on the chain, with a valid pair.
ChSetStreamProperties ==
    \E sr \in ValidSampleRates, ch \in ChannelCounts :
        LET r == ChainSetStreamProperties(chain, 1, sr, ch, OneDraw)
        IN  /\ chain' = r.chain
            /\ chainProps' = [sample_rate |-> sr, channels |-> ch]
            /\ chLast' = [op |-> "set_stream_properties", raised |-> r.raised,
                          in |-> NoArray, out |-> NoArray]
            /\ ChFrame

\* process on an all-zero block of the chain's shape.
ChProcessZeros ==
    LET block == Zeros(<<block_size, chainProps.channels>>)
    IN  /\ chLast' = [op |-> "process", raised |-> FALSE, in |-> block,
                      out |-> ChainProcess(chain, 1, block)]
        /\ UNCHANGED <<chain, chainProps>>
        /\ ChFrame

NextCh ==
    \/ ChAddEffect
    \/ ChSetParameter
    \/ ChToggleBypass
    \/ ChSetStreamProperties
    \/ ChProcessZeros

SpecCh == InitEng /\ [][NextCh]_vars

\* C16: set_stream_properties on the chain with a valid pair raises nothing,
\* and process on an all-zero block of shape (frames, channel_count) then
\* raises nothing and returns a block of that shape.
C16_ChainKeepsShape ==
    /\ (chLast.op = "set_stream_properties") => ~chLast.raised
    /\ (chLast.op = "process") =>
          /\ ~chLast.raised
          /\ chLast.out.shape = chLast.in.shape

ScenarioABC ==
    /\ playlist = <<1, 2, 3>>
    /\ ~shuffle_mode
    /\ repeat_mode = "all"
    /\ current_index \in 0..2

VolumeLevels == {0, 30, 100}

VolFrame ==
    UNCHANGED <<netVars, fxVars, plVars, chVars, sample_rate, channels,
                stream_output_queue, ctlVars, prodVars, cbVars, gen, enqLog,
                deqLog>>

\* set_volume(volume_float)
SetVolume ==
    /\ \E v \in VolumeLevels :
          /\ volume' = v
          /\ volScn' = IF v = 0 THEN 1 ELSE 0
    /\ UNCHANGED <<is_muted, previous_volume_before_mute>>
    /\ VolFrame

\* (A toggle_mute that does not save the volume when it mutes, for C19.)
ToggleMuteKeepsOldSave ==
    /\ is_muted' = ~is_muted
    /\ IF is_muted
       THEN /\ volume' = previous_volume_before_mute
            /\ UNCHANGED previous_volume_before_mute
       ELSE UNCHANGED <<volume, previous_volume_before_mute>>
    /\ volScn' = IF volScn \in {1, 2} THEN volScn + 1 ELSE 0
    /\ VolFrame

\* toggle_mute(): muting saves the volume in previous_volume_before_mute,
\* unmuting takes the volume back from it.
ToggleMute ==
    /\ is_muted' = ~is_muted
    /\ IF is_muted
       THEN /\ volume' = previous_volume_before_mute
            /\ UNCHANGED previous_volume_before_mute
       ELSE /\ previous_volume_before_mute' = volume
            /\ UNCHANGED volume
    /\ volScn' = IF volScn \in {1, 2} THEN volScn + 1 ELSE 0
    /\ VolFrame

\* The engine as constructed (volume 0.7, not muted), its stream running.
InitVol ==
    /\ InitCb
    /\ volume = DefaultVolume /\ ~is_muted
    /\ channels = DefaultChannels

NextVol == SetVolume \/ ToggleMute \/ CbPush \/ CbInvoke

SpecVol == InitVol /\ [][NextVol]_vars

C20_OpenFailureReported ==
    [][(FinishLoad /\ ctlArg.via_host /\ ctlArg.path \notin Tracks) =>
          /\ hostLast'.called_back
          /\ ~hostLast'.success
          /\ hostLast'.err_msg # "none"
          /\ ~engLast'.ok
          /\ current_file' = current_file
          /\ sample_rate' = sample_rate /\ channels' = channels
          /\ playlist' = playlist /\ current_index' = current_index
          /\ ~is_playing' /\ ~is_paused' /\ ~stream'.active]_vars

\* ------------------------------------------- _start_sound_stream: SpecDev
\* _start_sound_stream on its own. sample_rate and channels are plain
\* attributes the function guards against (<= 0), so SpecDev draws them with
\* the values the guard is for; the playback fields are drawn as play, pause
\* and the producer leave them, and the producer's blocks are in the queue
\* when the device is opened again.
InitDev ==
    /\ stream_output_queue = <<>>
    /\ volume = DefaultVolume /\ is_muted = FALSE
    /\ sample_rate \in {0, DefaultSampleRate}
    /\ channels \in {0, DefaultChannels}
    /\ \E p \in {<<FALSE, FALSE>>, <<TRUE, FALSE>>, <<TRUE, TRUE>>} :
          is_playing = p[1] /\ is_paused = p[2]
    /\ playback_position_sec \in {0, 1}
    /\ seek_request = None
    /\ stop_event = FALSE /\ pause_event = ~is_paused
    /\ prodPc = (IF is_playing THEN "loop" ELSE "none")
    /\ prodHeld = NoBlock /\ ctlPc = "ready"
    /\ outdata = StaleBuffer(block_size, DefaultChannels)
    /\ cbLast = NeverCalled
    /\ gen = 0 /\ nextId = 0 /\ enqLog = <<>> /\ deqLog = <<>>
    /\ fx = GainEffect /\ fxLast = NoCall /\ fxSeq = "fresh"
    /\ fxIn = NoArray /\ fxOut = NoArray
    /\ ExtState(NoStream, 1, <<1>>, 0)

DevFrame ==
    UNCHANGED <<netVars, fxVars, volVars, chVars, current_file, playlist, current_index,
                shuffle_mode, repeat_mode, shuffled_indices,
                current_shuffled_play_order_idx, transition_request, ctlArg,
                hostLast, stream_output_queue, engineVars, ctlVars, prodVars,
                cbVars, gen, enqLog, deqLog>>

\* self._start_sound_stream()
DevStartSoundStream ==
    /\ \E dev \in DeviceOutcomes :
          LET r == start_sound_stream(stream, sample_rate, channels, dev)
          IN  /\ stream' = r.stream
              /\ engLast' = [op |-> "_start_sound_stream", ok |-> r.ok,
                             path |-> None,
                             why |-> IF r.raised THEN "raised" ELSE "returned"]
    /\ DevFrame

\* self._stop_sound_stream()
DevStopSoundStream ==
    /\ stream.open
    /\ stream' = stop_sound_stream(stream)
    /\ engLast' = OtherEngCall
    /\ DevFrame

\* The producer's put of one decoded block.
DevPush ==
    /\ channels > 0
    /\ ~QueueFull(stream_output_queue)
    /\ nextId < MaxPush
    /\ stream_output_queue' =
           QueuePut(stream_output_queue, Block(nextId + 1, gen, DecodedBlock))
    /\ nextId' = nextId + 1
    /\ enqLog' = Append(enqLog, nextId + 1)
    /\ UNCHANGED <<netVars, fxVars, extVars, engineVars, ctlVars, prodPc, prodHeld,
                   cbVars, gen, deqLog>>

NextDev == DevStartSoundStream \/ DevStopSoundStream \/ DevPush \/ CbInvoke

SpecDev == InitDev /\ [][NextDev]_vars

\* C21: a _start_sound_stream that does not get the device open and started
\* (sample_rate or channels not positive, sd.OutputStream(...) raising,
\* stream.start() raising) returns False and raises nothing, and is_playing,
\* is_paused, playback_position_sec and the queue's blocks are as before.
C21_DeviceFailureLeavesPlaybackState ==
    [][DevStartSoundStream =>
          /\ engLast'.why = "returned"
          /\ engLast'.ok = stream'.active
          /\ (~stream'.active) =>
                /\ ~engLast'.ok
                /\ is_playing' = is_playing /\ is_paused' = is_paused
                /\ playback_position_sec' = playback_position_sec
                /\ stream_output_queue' = stream_output_queue]_vars

\* C21 witness: the device failed while the engine was paused in a track with
\* two blocks queued; the call returned False.
C21_Witness ==
    /\ engLast = [op |-> "_start_sound_stream", ok |-> FALSE, path |-> None,
                  why |-> "returned"]
    /\ sample_rate > 0 /\ channels > 0
    /\ is_playing /\ is_paused /\ playback_position_sec = 1
    /\ Len(stream_output_queue) = 2
    /\ ~stream.active

\* C21 witness for the guard: the stream properties were invalid.
C21_WitnessInvalidProps ==
    /\ engLast.op = "_start_sound_stream" /\ ~engLast.ok
    /\ sample_rate = 0

\* ------------------------------------ request_playback_action: SpecHost
\* The host's dispatch on its own. Every request draws the action name, the
\* presence of the engine and of the component the action needs, whether the
\* operation it calls raises, and whether a callback is passed. hostLast keeps
\* the request with its outcome. set_volume, toggle_mute and set_repeat_mode
\* are carried out on the engine's fields (volScn belongs to the direct calls
\* of SpecVol); the operations that work with the producer thread (load,
\* play, pause, resume, stop, next, previous, seek) are followed in SpecEng,
\* and SpecHost keeps which of them was called.
\* The action names of the host facade as the specification lists them.
FacadeActionNames ==
    {"load", "load_and_play", "play", "pause", "resume", "stop", "next",
     "previous", "seek", "set_volume", "toggle_mute", "set_shuffle_mode",
     "set_repeat_mode", "force_sync_playback"}

\* The same actions under the names the dispatch tests for.
FacadeActionNamesInCode ==
    {"load_track_from_path", "load_and_play_path", "play", "pause", "resume",
     "stop", "next", "previous", "seek", "set_volume", "toggle_mute",
     "set_shuffle_mode", "set_repeat_mode", "force_sync_playback"}

\* Every name the dispatch has a branch for.
DispatchTableNames ==
    FacadeActionNamesInCode \cup
        {"play_track_by_id", "play_track_at_playlist_index",
         "add_to_queue_path", "load_playlist_paths"}

\* The names requests are made with: the table's, the facade's, and one that
\* is in neither.
HostActionInputs == DispatchTableNames \cup FacadeActionNames \cup {"volume_up"}

HostRequestRecord(r, engine, present, raised, cb) ==
    r @@ [engine |-> engine, present |-> present, raised |-> raised,
          cb |-> cb]

\* The values the host takes from params: 'level' (default 0.7) and 'mode'
\* (default 'off').
HostLevels == {0, DefaultVolume}
HostModes == {"off", "all"}

HostRequest ==
    /\ ctlPc = "ready"
    /\ \E action \in HostActionInputs, engine \in BOOLEAN, present \in BOOLEAN,
          raised \in BOOLEAN, cb \in BOOLEAN :
          LET r == RequestPlaybackAction(action, engine, present, raised, cb)
          IN  /\ hostLast' = HostRequestRecord(r, engine, present, raised, cb)
              /\ IF r.success /\ r.dispatched = "audio_engine.set_volume"
                 THEN /\ \E v \in HostLevels : volume' = v
                      /\ UNCHANGED <<is_muted, previous_volume_before_mute,
                                     repeat_mode>>
                 ELSE IF r.success /\ r.dispatched = "audio_engine.toggle_mute"
                 THEN /\ is_muted' = ~is_muted
                      /\ IF is_muted
                         THEN /\ volume' = previous_volume_before_mute
                              /\ UNCHANGED previous_volume_before_mute
                         ELSE /\ previous_volume_before_mute' = volume
                              /\ UNCHANGED volume
                      /\ UNCHANGED repeat_mode
                 ELSE IF r.success /\ r.dispatched = "audio_engine.set_repeat_mode"
                 THEN /\ \E mode \in HostModes : repeat_mode' = mode
                      /\ UNCHANGED <<volume, is_muted,
                                     previous_volume_before_mute>>
                 ELSE UNCHANGED <<volume, is_muted,
                                  previous_volume_before_mute, repeat_mode>>
    /\ UNCHANGED <<netVars, fxVars, chVars, stream, current_file, playlist,
                   current_index, shuffle_mode, shuffled_indices,
                   current_shuffled_play_order_idx, transition_request,
                   ctlArg, engLast, volScn, sample_rate, channels,
                   stream_output_queue, ctlVars, prodVars, cbVars, gen,
                   enqLog, deqLog>>

NextHost == HostRequest

SpecHost == InitEng /\ [][NextHost]_vars

\* A request was made, with the engine there, the component the action needs
\* there, and the operation not raising.
HostServed ==
    /\ hostLast # NoHostCall
    /\ hostLast.engine /\ hostLast.present /\ ~hostLast.raised

\* A name outside the dispatch table calls nothing and is reported as a
\* failure with an error message.
UnknownActionFails ==
    (hostLast # NoHostCall /\ hostLast.engine
         /\ hostLast.action \notin DispatchTableNames) =>
        /\ hostLast.dispatched = "none"
        /\ ~hostLast.success
        /\ hostLast.err_msg # "none"

\* C22 as stated: every action name of {load, load_and_play, play, pause,
\* resume, stop, next, previous, seek, set_volume, toggle_mute,
\* set_shuffle_mode, set_repeat_mode, force_sync_playback} is dispatched to
\* its operation and reported as success, and a name outside the dispatch
\* table calls nothing and is reported as a failure with an error message.
C22_FacadeActionsAccepted ==
    /\ (HostServed /\ hostLast.action \in FacadeActionNames) =>
          hostLast.success /\ hostLast.dispatched # "none"
    /\ UnknownActionFails

\* C22 amended: the load actions are accepted under the names
\* load_track_from_path and load_and_play_path. Each action of
\* {load_track_from_path, load_and_play_path, play, pause, resume, stop, next,
\* previous, seek, set_volume, toggle_mute, set_shuffle_mode, set_repeat_mode,
\* force_sync_playback} is dispatched to its operation and reported as
\* success when the engine and the component it needs are there and the
\* operation does not raise; a name outside the dispatch table ("load" and
\* "load_and_play" among them) calls nothing and is reported as a failure
\* with an error message.
C22_CodeActionsAccepted ==
    /\ (HostServed /\ hostLast.action \in FacadeActionNamesInCode) =>
          /\ hostLast.success /\ hostLast.err_msg = "none"
          /\ hostLast.dispatched # "none"
    /\ UnknownActionFails

\* C22 witness: "seek" was dispatched to set_position and reported as
\* success.
C22_Witness ==
    /\ HostServed
    /\ hostLast.action = "seek" /\ hostLast.success
    /\ hostLast.dispatched = "audio_engine.set_position"

\* C22 witness for the names outside the table: "load" was refused.
C22_WitnessUnknown ==
    /\ hostLast # NoHostCall /\ hostLast.engine
    /\ hostLast.action = "load" /\ ~hostLast.success
    /\ hostLast.err_msg = "unknown action"

\* C23: every callback invocation that finds the queue empty records one
\* underrun in a count the engine holds, and no other invocation records
\* one, so that the count is the number of invocations that timed out.
C23_UnderrunCounted ==
    [][CbInvoke =>
          cbLast'.recorded = (IF stream_output_queue = <<>> THEN 1 ELSE 0)]_vars

\* C28: a request_playback_action that is given a callback schedules it
\* exactly once, on every path (engine missing, unknown action, the operation
\* raising, the operation returning), with the success and the error message
\* of that path; no exception leaves the function; and success is True only
\* when an operation was called and returned without raising.
C28_CallbackScheduledOnce ==
    (hostLast # NoHostCall /\ hostLast.cb) =>
        /\ hostLast.scheduled = 1
        /\ ~hostLast.propagated
        /\ hostLast.success => (hostLast.dispatched # "none" /\ ~hostLast.raised)
        /\ (~hostLast.engine) =>
              (~hostLast.success /\ hostLast.err_msg = "engine not available")
        /\ (hostLast.engine /\ hostLast.action \notin DispatchTableNames) =>
              (~hostLast.success /\ hostLast.err_msg = "unknown action")
        /\ (hostLast.engine /\ hostLast.raised /\ hostLast.dispatched # "none") =>
              (~hostLast.success /\ hostLast.err_msg = "error executing")

\* C28 witness: a request with a callback and no audio engine; the callback
\* was scheduled once with (False, "engine not available").
C28_Witness ==
    /\ hostLast # NoHostCall
    /\ hostLast.cb /\ ~hostLast.engine
    /\ hostLast.scheduled = 1 /\ ~hostLast.success
    /\ hostLast.err_msg = "engine not available"

\* C28 witness for the raising path: the operation raised, and the callback
\* was scheduled once with the error.
C28_WitnessRaised ==
    /\ hostLast # NoHostCall
    /\ hostLast.cb /\ hostLast.engine /\ hostLast.raised
    /\ hostLast.action = "play" /\ hostLast.dispatched = "audio_engine.play"
    /\ hostLast.scheduled = 1 /\ hostLast.err_msg = "error executing"

\* C29: a request that is reported as failed is reported with an error
\* message: success False comes with err_msg set, also for a known action
\* whose component or method is absent.
C29_FailureHasMessage ==
    (hostLast # NoHostCall /\ ~hostLast.success) => hostLast.err_msg # "none"

\* --------------------------------------------- mobile pairing: SpecSync
\* SecurityManager and the pairing handlers of MobileServer. Time is counted
\* in ticks; a PIN lives PinLifetime ticks (timedelta(minutes=5)). PINs, temp
\* ids and devices come from small sets, so that secrets.choice draws a PIN
\* that is still active, as six digits out of "0123456" can.
MaxTime == 3
PinLifetime == 2
Pins == {1, 2}
TempIds == {1, 2}
Devices == {1}
DeviceNames == {1}
\* A field the submission does not carry (data.get(...) is None).
Missing == 0

\* d[k] = v and del d[k] on a dict.
DictSet(d, k, v) == [x \in DOMAIN d \cup {k} |-> IF x = k THEN v ELSE d[x]]
DictDel(d, k) == [x \in DOMAIN d \ {k} |-> d[x]]
\* self.active_pairing_pins.get(pin): the entry, or None (NoPinInfo).
PinInfo(pins, pin) ==
    IF pin \in DOMAIN pins
    THEN [found |-> TRUE, temp |-> pins[pin].temp, expiry |-> pins[pin].expiry]
    ELSE NoPinInfo

\* generate_pin_for_desktop_display(temp_desktop_pairing_id), for the PIN
\* secrets.choice draws: active_pairing_pins after it.
generate_pin_for_desktop_display(pins, temp, pin, t) ==
    DictSet(pins, pin, [temp |-> temp, expiry |-> t + PinLifetime])

\* (A verify_pin_from_mobile that does not compare the temp ids, for C24.)
verify_pin_ignores_temp_id(pin_info, temp, t) ==
    IF ~pin_info.found THEN [ok |-> FALSE, delete |-> FALSE]
    ELSE IF t < pin_info.expiry THEN [ok |-> TRUE, delete |-> FALSE]
    ELSE [ok |-> FALSE, delete |-> TRUE]

\* verify_pin_from_mobile after `pin_info = self.active_pairing_pins.get(pin)`:
\* what it returns, and whether it deletes the PIN.
verify_pin_from_mobile(pin_info, temp, t) ==
    IF ~pin_info.found THEN [ok |-> FALSE, delete |-> FALSE]
    ELSE IF t < pin_info.expiry
    THEN [ok |-> pin_info.temp = temp, delete |-> FALSE]
    ELSE [ok |-> FALSE, delete |-> TRUE]

\* (A confirm_device_pairing that leaves the used PIN active, for C25.)
confirm_device_pairing_keeps_pin(pins, paired, device, name, pin) ==
    IF pin \in DOMAIN pins
    THEN [ok |-> TRUE, pins |-> pins, paired |-> DictSet(paired, device, name)]
    ELSE [ok |-> FALSE, pins |-> pins, paired |-> paired]

\* confirm_device_pairing(actual_mobile_device_id, mobile_device_name, pin)
confirm_device_pairing(pins, paired, device, name, pin) ==
    IF pin \in DOMAIN pins
    THEN [ok |-> TRUE, pins |-> DictDel(pins, pin),
          paired |-> DictSet(paired, device, name)]
    ELSE [ok |-> FALSE, pins |-> pins, paired |-> paired]

SyncFrame ==
    UNCHANGED <<collabVars, fxVars, extVars, stream_output_queue, engineVars,
                ctlVars, prodVars, cbVars, gen, enqLog, deqLog>>

\* The issuances that are neither expired at time t nor used.
Outstanding(set, t) == {i \in set : t < i.expiry}

\* A PIN is issued: by the desktop UI (refresh_pairing_info_from_server, on the
\* UI thread, at any moment), or by /api/request-pairing-pin or
\* /api/qr-code-info (on the server's loop, so not while
\* handle_submit_pin_from_mobile is between its calls).
GeneratePin ==
    /\ \E source \in {"desktop_ui", "request_pairing_pin", "qr_code_info"},
          pin \in Pins, temp \in TempIds :
          /\ source # "desktop_ui" => syncPc = "idle"
          /\ active_pairing_pins' =
                 generate_pin_for_desktop_display(active_pairing_pins, temp,
                                                  pin, now)
          /\ issued' = issued \cup
                 {[pin |-> pin, temp |-> temp, expiry |-> now + PinLifetime]}
          /\ syncLast' = [op |-> "generate_pin", status |-> "issued",
                          paired |-> FALSE]
    /\ UNCHANGED <<paired_devices_info, auth_tokens, now, syncPc, syncReq,
                   mwLast>>
    /\ SyncFrame

\* Time passes.
Tick ==
    /\ now < MaxTime
    /\ now' = now + 1
    /\ issued' = Outstanding(issued, now + 1)
    /\ UNCHANGED <<active_pairing_pins, paired_devices_info, auth_tokens,
                   syncPc, syncReq, syncLast, mwLast>>
    /\ SyncFrame

\* handle_submit_pin_from_mobile, up to the first statement of
\* verify_pin_from_mobile: the fields are read; a submission that lacks one is
\* answered 400; otherwise the PIN's entry is looked up.
SubmitPin ==
    /\ syncPc = "idle"
    /\ \E pin \in Pins \cup {Missing}, temp \in TempIds \cup {Missing},
          device \in Devices \cup {Missing}, name \in DeviceNames \cup {Missing} :
          LET req == [pin |-> pin, temp_server_id |-> temp,
                      mobile_device_id |-> device, mobile_device_name |-> name,
                      pin_info |-> PinInfo(active_pairing_pins, pin),
                      was_active |-> pin \in DOMAIN active_pairing_pins,
                      was_bound |-> /\ pin \in DOMAIN active_pairing_pins
                                    /\ active_pairing_pins[pin].temp = temp,
                      unexpired |-> FALSE]
          IN  IF Missing \in {pin, temp, device, name}
              THEN /\ syncLast' = [op |-> "submit", status |-> "400",
                                   paired |-> FALSE]
                   /\ UNCHANGED <<syncPc, syncReq>>
              ELSE /\ syncReq' = req
                   /\ syncPc' = "verify"
                   /\ UNCHANGED syncLast
    /\ UNCHANGED <<active_pairing_pins, paired_devices_info, auth_tokens, now,
                   issued, mwLast>>
    /\ SyncFrame

\* The rest of verify_pin_from_mobile: the expiry and the temp id of the entry
\* that was looked up are tested; an expired PIN is deleted; a False result is
\* answered 403.
SubmitVerify ==
    /\ syncPc = "verify"
    /\ LET r == verify_pin_from_mobile(syncReq.pin_info, syncReq.temp_server_id,
                                       now)
       IN  /\ active_pairing_pins' =
                  IF r.delete THEN DictDel(active_pairing_pins, syncReq.pin)
                  ELSE active_pairing_pins
           /\ IF r.ok
              THEN /\ syncPc' = "confirm"
                   /\ syncReq' = [syncReq EXCEPT
                                     !.unexpired = now < syncReq.pin_info.expiry]
                   /\ UNCHANGED syncLast
              ELSE /\ syncPc' = "idle"
                   /\ syncReq' = NoSubmission
                   /\ syncLast' = [op |-> "submit", status |-> "403",
                                   paired |-> FALSE]
    /\ UNCHANGED <<paired_devices_info, auth_tokens, now, issued, mwLast>>
    /\ SyncFrame

\* confirm_device_pairing and the response: the device is stored, the PIN is
\* deleted and an auth token is issued; a PIN that is no longer active is
\* answered 500.
SubmitConfirm ==
    /\ syncPc = "confirm"
    /\ LET r == confirm_device_pairing(active_pairing_pins, paired_devices_info,
                                       syncReq.mobile_device_id,
                                       syncReq.mobile_device_name, syncReq.pin)
       IN  /\ active_pairing_pins' = r.pins
           /\ paired_devices_info' = r.paired
           /\ auth_tokens' = IF r.ok
                             THEN auth_tokens \cup {syncReq.mobile_device_id}
                             ELSE auth_tokens
           /\ issued' = IF r.ok THEN {i \in issued : i.pin # syncReq.pin}
                        ELSE issued
           /\ syncLast' = [op |-> "submit",
                           status |-> IF r.ok THEN "paired" ELSE "500",
                           paired |-> r.ok]
    /\ syncPc' = "idle"
    /\ syncReq' = NoSubmission
    /\ UNCHANGED <<now, mwLast>>
    /\ SyncFrame

NextSync == GeneratePin \/ Tick \/ SubmitPin \/ SubmitVerify \/ SubmitConfirm

SpecSync == InitEng /\ [][NextSync]_vars

C24_WitnessPaired ==
    /\ syncLast = [op |-> "submit", status |-> "paired", paired |-> TRUE]
    /\ 1 \in DOMAIN paired_devices_info /\ 1 \in auth_tokens

\* C25: a PIN is used once. When confirm_device_pairing succeeds the PIN is
\* no longer in active_pairing_pins; a PIN that is not there fails
\* verification (and confirmation), and only the issuing of a PIN puts one
\* there; an expired PIN that is presented is refused and is no longer there.
C25_PinSingleUse ==
    /\ [][(SubmitConfirm /\ syncLast'.paired) =>
             syncReq.pin \notin DOMAIN active_pairing_pins']_vars
    /\ [][(SubmitVerify /\ ~syncReq.was_active) =>
             (syncPc' = "idle" /\ syncLast'.status = "403")]_vars
    /\ [][(SubmitConfirm /\ syncReq.pin \notin DOMAIN active_pairing_pins) =>
             (~syncLast'.paired /\ syncLast'.status = "500")]_vars
    /\ [][(DOMAIN active_pairing_pins' \ DOMAIN active_pairing_pins # {}) =>
             syncLast'.op = "generate_pin"]_vars
    /\ [][(SubmitVerify /\ syncReq.pin_info.found
                        /\ ~(now < syncReq.pin_info.expiry)) =>
             /\ syncLast'.status = "403"
             /\ syncReq.pin \notin DOMAIN active_pairing_pins']_vars

\* C25 witness: PIN 1 was used for a pairing and a later submission of it was
\* refused, no PIN being active.
C25_Witness ==
    /\ 1 \in DOMAIN paired_devices_info
    /\ active_pairing_pins = NoDict
    /\ syncLast = [op |-> "submit", status |-> "403", paired |-> FALSE]

\* C26: every PIN that was handed out and has neither expired nor been used
\* is in active_pairing_pins with the temp id and the expiry it was issued
\* with.
C26_OutstandingPinsStay ==
    \A i \in issued :
        /\ i.pin \in DOMAIN active_pairing_pins
        /\ active_pairing_pins[i.pin] = [temp |-> i.temp, expiry |-> i.expiry]


\* ------------------------------------------ the auth middleware: SpecMw
\* MobileServer._auth_middleware in front of the routes of setup_routes. A
\* path is the sequence of its segments ("/api/state" is <<"api", "state">>,
\* "/ui" is <<"ui">>); an Authorization header is a scheme, whether a space
\* follows it, and what follows the space. The token of device d is
\* TokenOf(d); the server starts with any of MwDevices paired.
MwDevices == {1, 2}
TokenOf(d) == 10 + d
\* The empty string after "Bearer ", and a token the server never issued.
EmptyToken == 0
ForgedToken == 99

\* (The bypass list with /api/state added to it, for C27.)
PublicPathsWithState ==
    {<<"api", "request-pairing-pin">>, <<"api", "submit-pin-for-pairing">>,
     <<"api", "info">>, <<"api", "qr-code-info">>, <<"api", "state">>}

\* The list of `request.path in [...]`.
PublicPaths ==
    {<<"api", "request-pairing-pin">>, <<"api", "submit-pin-for-pairing">>,
     <<"api", "info">>, <<"api", "qr-code-info">>}

\* request.path.startswith('/ui/')
StartsWithUi(path) == Len(path) >= 2 /\ path[1] = "ui"

\* auth_header.startswith('Bearer ')
StartsWithBearer(header) == header.scheme = "Bearer" /\ header.sep

\* auth_header.split(" ", 1)[1]
HeaderToken(header) == header.token

\* verify_auth_token(token): the device the token was issued to by
\* generate_auth_token, or None.
verify_auth_token(tokens, token) ==
    IF \E d \in tokens : TokenOf(d) = token
    THEN CHOOSE d \in tokens : TokenOf(d) = token
    ELSE None

\* setup_routes: the handler the router resolves the path to; a path without
\* a route resolves to the router's not-found handler.
RouteOf(path) ==
    CASE path = <<"api", "info">> -> "handle_info"
      [] path = <<"api", "request-pairing-pin">> ->
             "handle_request_pairing_pin_from_desktop_ui"
      [] path = <<"api", "submit-pin-for-pairing">> ->
             "handle_submit_pin_from_mobile"
      [] path = <<"api", "state">> -> "handle_get_state"
      [] path = <<"api", "command">> -> "handle_command"
      [] path = <<"api", "library", "browse">> -> "handle_library_browse"
      [] path = <<"ws">> -> "handle_websocket"
      [] path = <<"api", "qr-code-info">> -> "handle_qr_code_info_for_mobile"
      [] OTHER -> "not_found"

\* The response of a handler that ran, as far as the middleware is concerned.
HandlerStatus == 200

\* middleware(request): whether the handler is awaited, with which
\* request['device_id'], and the status of the response.
auth_middleware(path, header, tokens) ==
    LET through(dev) == [seen |-> TRUE, path |-> path, header |-> header,
                         status |-> HandlerStatus, handled |-> TRUE,
                         handler |-> RouteOf(path), device_id |-> dev]
        refused == [seen |-> TRUE, path |-> path, header |-> header,
                    status |-> 401, handled |-> FALSE, handler |-> "none",
                    device_id |-> None]
        device_id == verify_auth_token(tokens, HeaderToken(header))
    IN  IF path \in PublicPaths \/ StartsWithUi(path) THEN through(None)
        ELSE IF path = <<"ws">> THEN through(None)
        ELSE IF header = NoHeader \/ header.scheme = ""
                  \/ ~StartsWithBearer(header) THEN refused
        ELSE IF device_id = None THEN refused
        ELSE through(device_id)

\* The paths and the headers of the requests.
MwPaths ==
    PublicPathsWithState \cup
    {<<"ws">>, <<"ui", "index.html">>, <<"ui">>, <<"api", "command">>,
     <<"api", "library", "browse">>, <<"api", "other">>, <<>>}
MwHeaders ==
    {NoHeader, [scheme |-> "", sep |-> FALSE, token |-> EmptyToken],
     [scheme |-> "Bearer", sep |-> FALSE, token |-> EmptyToken],
     [scheme |-> "Basic", sep |-> TRUE, token |-> TokenOf(1)],
     [scheme |-> "bearer", sep |-> TRUE, token |-> TokenOf(1)]}
    \cup {[scheme |-> "Bearer", sep |-> TRUE, token |-> t] :
             t \in {TokenOf(d) : d \in MwDevices} \cup {EmptyToken, ForgedToken}}

\* One HTTP request passes the middleware.
MwRequest ==
    /\ \E path \in MwPaths, header \in MwHeaders :
          mwLast' = auth_middleware(path, header, auth_tokens)
    /\ UNCHANGED <<active_pairing_pins, paired_devices_info, auth_tokens, now,
                   issued, syncPc, syncReq, syncLast>>
    /\ SyncFrame

\* The server with some of the devices paired, the player idle.
InitMw ==
    /\ EngineOwn
    /\ ExtOwn(NoStream, None, <<>>, -1)
    /\ fx = GainEffect /\ fxLast = NoCall /\ fxSeq = "fresh"
    /\ fxIn = NoArray /\ fxOut = NoArray
    /\ \E devs \in SUBSET MwDevices : NetState(devs)

NextMw == MwRequest

SpecMw == InitMw /\ [][NextMw]_vars

\* The paths the middleware is said to let through without a token.
OpenPath(path) ==
    \/ path \in {<<"api", "request-pairing-pin">>,
                 <<"api", "submit-pin-for-pairing">>, <<"api", "info">>,
                 <<"api", "qr-code-info">>, <<"ws">>}
    \/ (Len(path) >= 2 /\ path[1] = "ui")

\* The header is "Bearer " followed by a token that was issued to a device.
BearerOfDevice(header) ==
    /\ header.scheme = "Bearer" /\ header.sep
    /\ \E d \in auth_tokens : header.token = TokenOf(d)

\* C27: for a request to a path that is not open, the handler has run only
\* if the Authorization header is a Bearer token issued to a device, and the
\* request then carries that device's id; for any other header the response
\* is 401 and no handler has run.
C27_ProtectedNeedsToken ==
    (mwLast.seen /\ ~OpenPath(mwLast.path)) =>
        /\ mwLast.handled =>
              /\ BearerOfDevice(mwLast.header)
              /\ mwLast.device_id \in auth_tokens
              /\ mwLast.header.token = TokenOf(mwLast.device_id)
        /\ ~BearerOfDevice(mwLast.header) =>
              (mwLast.status = 401 /\ ~mwLast.handled
                  /\ mwLast.handler = "none")

\* C27 witness: with both devices paired, /api/library/browse was requested
\* with device 2's token and its handler ran with device_id 2.
C27_Witness ==
    /\ auth_tokens = MwDevices
    /\ mwLast.seen /\ mwLast.path = <<"api", "library", "browse">>
    /\ mwLast.handled /\ mwLast.handler = "handle_library_browse"
    /\ mwLast.device_id = 2

\* C27 witness for the refusal: device 2's token while only device 1 is
\* paired is answered 401.
C27_WitnessRefused ==
    /\ auth_tokens = {1}
    /\ mwLast.seen /\ mwLast.path = <<"api", "state">>
    /\ mwLast.header = [scheme |-> "Bearer", sep |-> TRUE, token |-> TokenOf(2)]
    /\ mwLast.status = 401 /\ ~mwLast.handled


\* --------------------------------------- collaboration panel: SpecCollab
\* CollaborationUI: the session fields, the handlers the client's events
\* schedule on the UI thread with self.after(0, ...), and the UI actions. The
\* events come from the client's thread at any moment; the scheduled handlers
\* and the UI actions run on the UI thread, one at a time, the scheduled ones
\* in the order they were scheduled.
MaxAfter == 2
\* self.user_id, and the ids of the users and of the sessions of the server.
UserId == 1
UserIds == {1, 2}
SessionIds == {1, 2}

\* data['session'] of a session_created or session_joined message: the
\* Session the server holds, which has a session_id and a host_id.
Sessions ==
    {[set |-> TRUE, session_id |-> sid, host_id |-> h] :
        sid \in SessionIds, h \in UserIds}

\* _handle_session_joined(data): current_session_data and
\* is_host_of_session after it.
handle_session_joined(user, session) ==
    [data |-> session, host |-> (user = session.host_id)]

\* _handle_host_changed(data): the body in the source assigns nothing.
handle_host_changed(data, host, new_host) == [data |-> data, host |-> host]

\* (A leave_session that leaves is_host_of_session as it is, for C30.)
leave_session_keeps_host(data, host) ==
    IF data.set THEN [data |-> NoSession, host |-> host, sent |-> TRUE]
    ELSE [data |-> data, host |-> host, sent |-> FALSE]

\* leave_session(): the two fields after it, and whether client.leave_session
\* is sent.
leave_session(data, host) ==
    IF data.set THEN [data |-> NoSession, host |-> FALSE, sent |-> TRUE]
    ELSE [data |-> data, host |-> host, sent |-> FALSE]

\* The early return of the host actions; play_pause also needs
\* host_app.audio_engine_ref.
host_action_returns(op, host, data, engine) ==
    \/ ~host
    \/ ~data.set
    \/ (op = "play_pause" /\ ~engine)

CollabFrame ==
    UNCHANGED <<syncVars, fxVars, extVars, stream_output_queue, engineVars,
                ctlVars, prodVars, cbVars, gen, enqLog, deqLog>>

CollabCall(op, sent) ==
    [op |-> op, sent |-> sent, was_host |-> is_host_of_session,
     had_session |-> current_session_data.set]

\* on_session_joined(data), registered for session_created and for
\* session_joined: the handler is scheduled.
OnSessionJoined ==
    /\ Len(collabAfter) < MaxAfter
    /\ \E session \in Sessions :
          collabAfter' = Append(collabAfter, [handler |-> "_handle_session_joined",
                                              session |-> session,
                                              new_host |-> session.host_id])
    /\ UNCHANGED <<current_session_data, is_host_of_session, collabLast>>
    /\ CollabFrame

\* on_host_changed(data): the handler is scheduled.
OnHostChanged ==
    /\ Len(collabAfter) < MaxAfter
    /\ \E h \in UserIds :
          collabAfter' = Append(collabAfter, [handler |-> "_handle_host_changed",
                                              session |-> NoSession,
                                              new_host |-> h])
    /\ UNCHANGED <<current_session_data, is_host_of_session, collabLast>>
    /\ CollabFrame

\* The UI thread runs the handler that was scheduled first.
RunAfter ==
    /\ collabAfter # <<>>
    /\ LET h == Head(collabAfter)
           r == IF h.handler = "_handle_session_joined"
                THEN handle_session_joined(UserId, h.session)
                ELSE handle_host_changed(current_session_data,
                                         is_host_of_session, h.new_host)
       IN  /\ current_session_data' = r.data
           /\ is_host_of_session' = r.host
           /\ collabLast' = CollabCall(h.handler, FALSE)
    /\ collabAfter' = Tail(collabAfter)
    /\ CollabFrame

\* leave_session(), from the UI.
LeaveSession ==
    /\ LET r == leave_session(current_session_data, is_host_of_session)
       IN  /\ current_session_data' = r.data
           /\ is_host_of_session' = r.host
           /\ collabLast' = CollabCall("leave_session", r.sent)
    /\ UNCHANGED collabAfter
    /\ CollabFrame

\* host_ui_action_play_pause / host_ui_action_next_track /
\* host_ui_action_seek_session: the command is sent unless the action
\* returns early.
HostUiAction ==
    /\ \E op \in {"play_pause", "next_track", "seek"}, engine \in BOOLEAN :
          collabLast' =
              CollabCall(op, ~host_action_returns(op, is_host_of_session,
                                                  current_session_data, engine))
    /\ UNCHANGED <<current_session_data, is_host_of_session, collabAfter>>
    /\ CollabFrame

NextCollab ==
    \/ OnSessionJoined
    \/ OnHostChanged
    \/ RunAfter
    \/ LeaveSession
    \/ HostUiAction

SpecCollab == InitEng /\ [][NextCollab]_vars

\* C30: is_host_of_session is true only when current_session_data is set and
\* its host_id is the local user_id; a host command is sent only in such a
\* state; and after leave_session current_session_data is cleared and
\* is_host_of_session is false, whatever the order of the session events and
\* the leave_session calls.
C30_HostCommandsOnlyAsHost ==
    /\ [](is_host_of_session =>
             (current_session_data.set /\ current_session_data.host_id = UserId))
    /\ [][(HostUiAction /\ collabLast'.sent) =>
             /\ is_host_of_session
             /\ current_session_data.set
             /\ current_session_data.host_id = UserId]_vars
    /\ [][LeaveSession =>
             (current_session_data' = NoSession /\ ~is_host_of_session')]_vars

\* C30 witness: the user is in a session another user hosts, and a host
\* command pressed there was not sent.
C30_Witness ==
    /\ current_session_data.set /\ current_session_data.host_id # UserId
    /\ ~is_host_of_session
    /\ collabLast.op = "next_track" /\ ~collabLast.sent

\* C30 witness for the sending: a host command was sent from a session the
\* user hosts.
C30_WitnessSent ==
    /\ is_host_of_session /\ current_session_data.host_id = UserId
    /\ collabLast.op = "seek" /\ collabLast.sent

\* C30 witness for leaving: leave_session ran in a session the user hosted.
C30_WitnessLeft ==
    /\ collabLast.op = "leave_session" /\ collabLast.sent /\ collabLast.was_host
    /\ current_session_data = NoSession /\ ~is_host_of_session

=============================================================================
